---- MODULE Spec2Model ----
(***************************************************************************)
(* A model of the hyper-signals pipeline: the retrying fetcher and the     *)
(* aggregator (scripts/fetch_positions.py, scripts/daily_feed.py), the     *)
(* thread formatters (scripts/format_thread.py, scripts/daily_feed.py)     *)
(* and the publisher (scripts/post_typefully.py, scripts/daily_feed.py).   *)
(*                                                                         *)
(* Six specifications share the module:                                    *)
(*   SpecFetch    fetch_all_positions driving fetch_positions_with_retry   *)
(*   SpecFormat   the three thread formatters applied to an aggregate      *)
(*   SpecPublish  create_draft / post_to_typefully and their callers       *)
(*   SpecRun      one run of daily_feed.main or of post_typefully.main     *)
(*   SpecNumber   the three format_number functions applied to a value     *)
(*   SpecUpload   one call of upload_media_to_typefully                     *)
(***************************************************************************)
EXTENDS Integers, Sequences, FiniteSets, TLC

VARIABLES
    \* ---- fetch_all_positions / fetch_positions_with_retry ----
    tokens,       \* the token list handed to fetch_all_positions
    ti,           \* 1-based index of the token the for-loop is at
    pc,           \* control point of the fetch ("next_token", "request", "sleep", "done", "idle")
    attempt,      \* loop variable of `for attempt in range(max_retries)`
    backoff,      \* local `backoff` (seconds)
    last_error,   \* local `last_error`
    results,      \* the dict `results`, in insertion order
    errors,       \* the list `errors`
    reqlog,       \* observation: requests and sleeps of the token being fetched
    spent,        \* observation: requests and sleeps of the whole call so far
    produced,     \* observation: what each token's fetch returned or raised
    \* ---- formatters ----
    data,         \* the aggregate handed to the formatter
    media_ids,    \* the media id list handed to format_thread_with_images
    fmt,          \* which formatter ran ("none" before it ran)
    posts,        \* the formatter's return value
    \* ---- publisher ----
    script,       \* which publisher runs ("post_typefully" or "daily_feed")
    dry_run,      \* the dry_run argument
    schedule,     \* the schedule_minutes argument (a record; None for None)
    now,          \* the clock read by datetime.now(timezone.utc)
    thread,       \* the post sequence handed to the publisher
    ppc,          \* control point of the publisher
    payload,      \* the payload the publisher built
    sent,         \* observation: the draft-creation requests issued
    outcome,      \* what the publisher returned or raised
    exit_code,    \* the exit code of the caller (None while it runs)
    \* ---- the entry points: daily_feed.main, post_typefully.main ----
    mpc,          \* control point of main
    env,          \* os.environ: which of the three variables are set
    health_check_only, \* --health-check
    use_images,   \* --use-images (main clears it when image generation fails)
    social_set_id, \* local `social_set_id`
    stdin,        \* what post_typefully.main reads from standard input
    image_paths,  \* local `image_paths`: the token of each generated image
    up_i,         \* 1-based index of `for img_path in image_paths`
    health,       \* the dict `status` of health_check
    events,       \* observation: network requests, image generation, formatting
    \* ---- format_number ----
    num,          \* the argument n
    include_sign, \* the argument include_sign
    out_df,       \* what daily_feed.format_number returned
    out_ft,       \* what format_thread.format_number returned
    out_img,      \* what generate_table_image.format_number returned
    \* ---- upload_media_to_typefully ----
    upc,          \* control point of upload_media_to_typefully
    upload_data,  \* the JSON of the upload-target response
    polls,        \* observation: the status responses the poll received
    poll_sleeps,  \* observation: the number of time.sleep(1) calls
    upload_outcome \* what upload_media_to_typefully returned or raised

fetchVars   == <<tokens, ti, pc, attempt, backoff, last_error, results, errors, reqlog, spent, produced>>
formatVars  == <<data, media_ids, fmt, posts>>
publishVars == <<script, dry_run, schedule, now, thread, ppc, payload, sent, outcome, exit_code>>
runVars     == <<mpc, env, health_check_only, use_images, social_set_id, stdin, image_paths,
                 up_i, health, events>>
numberVars  == <<num, include_sign, out_df, out_ft, out_img>>
uploadVars  == <<upc, upload_data, polls, poll_sleeps, upload_outcome>>
vars        == <<fetchVars, formatVars, publishVars, runVars, numberVars, uploadVars>>

---------------------------------------------------------------------------
(* Bounds of the model. *)
MaxTokens    == 2      \* longest token list handed to fetch_all_positions
MaxPositions == 6      \* most positions of one token in a formatted aggregate
MaxKeys      == 2      \* most tokens present in a formatted aggregate
MaxMedia     == 2      \* longest media id list handed to the image formatter
MaxTime      == 4      \* the last instant a datetime can hold (datetime.max), in minutes
MaxUnits     == 2      \* most whole thousands or millions in a value handed to format_number

(* Program constants. *)
MAX_RETRIES     == 3
INITIAL_BACKOFF == 1
POSITIONS_PER_TWEET == 5

TOKENS == <<"BTC", "ETH", "SOL", "HYPE">>

\* Symbols a caller may put in a token list (--tokens=... accepts repeats).
TokenNames == {"BTC", "ETH"}
TokenLists == UNION {[1..n -> TokenNames] : n \in 0..MaxTokens}

---------------------------------------------------------------------------
(* Values. *)

None == [type |-> "None"]

Sides == {"Long", "Short"}
\* A position record, as far as the formatters tell positions apart: its
\* side and its wallet address.
Position(s, a) == [side |-> s, address |-> a]
\* n positions of n wallets, Long and Short in turn.
PositionList(n) == [i \in 1..n |-> Position(IF i % 2 = 1 THEN "Long" ELSE "Short", i)]
PositionLists == {PositionList(n) : n \in 0..MaxPositions}

\* JSON values the position API may answer with under a 2xx status.
\*   "object"          {"data": [...]}
\*   "object_nodata"   {}            (no "data" key)
\*   "object_nulldata" {"data": null}
\*   "array"           [...]         (not a JSON object)
ObjectBody(ps) == [kind |-> "object", data |-> ps]
Bodies ==
    {ObjectBody(PositionList(n)) : n \in {0, 2}}
    \cup {[kind |-> k, data |-> <<>>] : k \in {"object_nodata", "object_nulldata", "array"}}

\* Exceptions.
TimeoutException  == [type |-> "TimeoutException"]
RequestError      == [type |-> "RequestError"]
HTTPStatusError(c) == [type |-> "HTTPStatusError", status |-> c]
JSONDecodeError   == [type |-> "JSONDecodeError"]
AttributeError    == [type |-> "AttributeError"]
TypeError         == [type |-> "TypeError"]
RuntimeError(token, cause) ==
    [type |-> "RuntimeError", token |-> token, attempts |-> MAX_RETRIES, cause |-> cause]

\* str(e): the message of an exception.  The message of the RuntimeError
\* names the token and the attempt count, never the chained cause.
Str(e) ==
    CASE e.type = "RuntimeError"    -> [text |-> "Failed to fetch", token |-> e.token, attempts |-> e.attempts]
      [] e.type = "HTTPStatusError" -> [text |-> "HTTP status error", status |-> e.status]
      [] OTHER                      -> [text |-> e.type]

\* Statuses outside 2xx the position API may answer with; raise_for_status
\* raises HTTPStatusError for each of them.
ErrorStatuses == {301, 404, 429, 500}

---------------------------------------------------------------------------
(* The dict `results`: a sequence of key/value pairs in insertion order. *)

DictHas(d, k) == \E i \in 1..Len(d) : d[i].key = k
DictIndex(d, k) == CHOOSE i \in 1..Len(d) : d[i].key = k
DictGet(d, k) == d[DictIndex(d, k)].value
DictKeys(d) == [i \in 1..Len(d) |-> d[i].key]
\* d[k] = v: an existing key keeps its place, a new key goes last.
DictSet(d, k, v) ==
    IF DictHas(d, k)
    THEN [d EXCEPT ![DictIndex(d, k)].value = v]
    ELSE Append(d, [key |-> k, value |-> v])

---------------------------------------------------------------------------
(* fetch_positions_with_retry: the decisions of the retry loop. *)

\* `400 <= status_code < 500 and status_code != 429`: raised at once.
IsFatalStatusNever(c) == FALSE
IsFatalStatusServerOnly(c) == c >= 500
IsFatalStatus(c) == 400 <= c /\ c < 500 /\ c # 429

\* `if attempt < max_retries - 1`: sleep and go round the loop again.
ShouldSleepAlways(a) == a < MAX_RETRIES
ShouldSleep(a) == a < MAX_RETRIES - 1

\* `backoff *= 2`
NextBackoffConstant(b) == b
NextBackoff(b) == b * 2

\* `last_error = e` in each except clause.
SetLastErrorKeepFirst(prev, e) == IF prev = None THEN e ELSE prev
SetLastError(prev, e) == e

(* fetch_all_positions: what one round of the for-loop does with the      *)
(* outcome of the token's fetch.                                           *)

\* `results[token] = {"data": [], "error": str(e)}`
ErrorEntryWithRow(e) == [kind |-> "object", data |-> <<[side |-> "Long", address |-> 1]>>, error |-> Str(e)]
ErrorEntry(e) == [kind |-> "object", data |-> <<>>, error |-> Str(e)]

\* The exception of the statement that logs the position count,
\* `len(results[token].get("data", []))`, which runs inside the try block
\* after the assignment: a body without .get (not an object) raises
\* AttributeError, a data value without a length raises TypeError.
LogLineError(body) ==
    CASE body.kind = "array"           -> AttributeError
      [] body.kind = "object_nulldata" -> TypeError
      [] OTHER                         -> None

ReturnedEmptyBody(b) == [raised |-> FALSE, body |-> [kind |-> "object", data |-> <<>>], exc |-> None]
Returned(b) == [raised |-> FALSE, body |-> b, exc |-> None]
Raised(e)   == [raised |-> TRUE, body |-> [kind |-> "none", data |-> <<>>], exc |-> e]

\* The exception the except clause of the for-loop catches, None if none.
Caught(f) == IF f.raised THEN f.exc ELSE LogLineError(f.body)

\* `results[token] = {"data": [], "error": str(e)}`
RecordFailureSkip(res, token, e) == res
RecordFailure(res, token, e) == DictSet(res, token, ErrorEntry(e))

\* results after the round of `token` whose fetch ended as f.
StoreResult(res, token, f) ==
    LET assigned == IF f.raised THEN res ELSE DictSet(res, token, f.body)
    IN  IF Caught(f) = None THEN assigned ELSE RecordFailure(assigned, token, Caught(f))

\* errors after that round.
StoreError(errs, token, f) ==
    IF Caught(f) = None THEN errs
    ELSE Append(errs, [token |-> token, error |-> Str(Caught(f))])

\* The index the for-loop goes to after a round (n tokens in all).
NextIndexAbort(i, n, failed) == IF failed THEN n + 1 ELSE i + 1
NextIndex(i, n, failed) == i + 1

\* Observations.
RequestEvent(o) == [ev |-> "request", outcome |-> o]
SleepEvent(d)   == [ev |-> "sleep", secs |-> d]
NothingSpent    == [requests |-> 0, sleeps |-> 0]

\* client.post was called and ended as o.
Requested(o) ==
    /\ reqlog' = Append(reqlog, RequestEvent(o))
    /\ spent' = [spent EXCEPT !.requests = @ + 1]

\* The round of the for-loop ends: the fetch of tokens[ti] ended as f.
EndRound(f) ==
    /\ results' = StoreResult(results, tokens[ti], f)
    /\ errors' = StoreError(errors, tokens[ti], f)
    /\ produced' = Append(produced, f)
    /\ ti' = NextIndex(ti, Len(tokens), Caught(f) # None)
    /\ pc' = "next_token"

\* A retryable failure e of the current attempt: sleep, or give up after
\* the last attempt with `raise RuntimeError(...) from last_error`.
AfterFailure(e) ==
    /\ last_error' = SetLastError(last_error, e)
    /\ IF ShouldSleep(attempt)
       THEN /\ pc' = "sleep"
            /\ UNCHANGED <<ti, results, errors, produced>>
       ELSE EndRound(Raised(RuntimeError(tokens[ti], last_error')))
    /\ UNCHANGED <<tokens, attempt, backoff>>

\* `backoff = INITIAL_BACKOFF`: a local of each call, whatever the value
\* the call before left.
EntryBackoffCarried(prev) == prev
EntryBackoff(prev) == INITIAL_BACKOFF

\* `for token in tokens:` enters the next round and calls the fetch, whose
\* locals start afresh.
NextToken ==
    /\ pc = "next_token"
    /\ ti <= Len(tokens)
    /\ last_error' = None
    /\ backoff' = EntryBackoff(backoff)
    /\ attempt' = 0
    /\ reqlog' = <<>>
    /\ pc' = "request"
    /\ UNCHANGED <<tokens, ti, results, errors, produced, spent>>
    /\ UNCHANGED <<formatVars, publishVars, runVars, numberVars, uploadVars>>

\* The for-loop is over: `return results`.
ReturnResults ==
    /\ pc = "next_token"
    /\ ti > Len(tokens)
    /\ pc' = "done"
    /\ UNCHANGED <<tokens, ti, attempt, backoff, last_error, results, errors, reqlog, spent, produced>>
    /\ UNCHANGED <<formatVars, publishVars, runVars, numberVars, uploadVars>>

\* client.post answers 2xx with a JSON body: `return response.json()`.
RequestOk ==
    /\ pc = "request"
    /\ \E b \in Bodies :
        /\ Requested([res |-> "ok", body |-> b])
        /\ EndRound(Returned(b))
    /\ UNCHANGED <<tokens, attempt, backoff, last_error>>
    /\ UNCHANGED <<formatVars, publishVars, runVars, numberVars, uploadVars>>

\* client.post answers 2xx with a body that is no JSON: response.json()
\* raises a ValueError none of the except clauses catches.
RequestBadJson ==
    /\ pc = "request"
    /\ Requested([res |-> "bad_json"])
    /\ EndRound(Raised(JSONDecodeError))
    /\ UNCHANGED <<tokens, attempt, backoff, last_error>>
    /\ UNCHANGED <<formatVars, publishVars, runVars, numberVars, uploadVars>>

\* `except httpx.TimeoutException`
RequestTimeout ==
    /\ pc = "request"
    /\ Requested([res |-> "timeout"])
    /\ AfterFailure(TimeoutException)
    /\ UNCHANGED <<formatVars, publishVars, runVars, numberVars, uploadVars>>

\* `except httpx.RequestError`
RequestFails ==
    /\ pc = "request"
    /\ Requested([res |-> "request_error"])
    /\ AfterFailure(RequestError)
    /\ UNCHANGED <<formatVars, publishVars, runVars, numberVars, uploadVars>>

\* `except httpx.HTTPStatusError`: raise_for_status raised for status c.
RequestStatus ==
    /\ pc = "request"
    /\ \E c \in ErrorStatuses :
        /\ Requested([res |-> "status", status |-> c])
        /\ IF IsFatalStatus(c)
           THEN /\ last_error' = SetLastError(last_error, HTTPStatusError(c))
                /\ EndRound(Raised(HTTPStatusError(c)))
                /\ UNCHANGED <<tokens, attempt, backoff>>
           ELSE AfterFailure(HTTPStatusError(c))
    /\ UNCHANGED <<formatVars, publishVars, runVars, numberVars, uploadVars>>

\* `time.sleep(backoff); backoff *= 2`, then the next attempt.
Sleep ==
    /\ pc = "sleep"
    /\ reqlog' = Append(reqlog, SleepEvent(backoff))
    /\ spent' = [spent EXCEPT !.sleeps = @ + 1]
    /\ backoff' = NextBackoff(backoff)
    /\ attempt' = attempt + 1
    /\ pc' = "request"
    /\ UNCHANGED <<tokens, ti, last_error, results, errors, produced>>
    /\ UNCHANGED <<formatVars, publishVars, runVars, numberVars, uploadVars>>

FetchIdle ==
    /\ tokens = <<>> /\ ti = 1 /\ pc = "idle" /\ attempt = 0
    /\ backoff = INITIAL_BACKOFF /\ last_error = None
    /\ results = <<>> /\ errors = <<>> /\ reqlog = <<>> /\ produced = <<>>
    /\ spent = NothingSpent

FormatIdle ==
    /\ data = <<>> /\ media_ids = <<>> /\ fmt = "none" /\ posts = <<>>

PublishIdle ==
    /\ script = "none" /\ dry_run = FALSE /\ schedule = None /\ now = 0
    /\ thread = <<>> /\ ppc = "idle" /\ payload = None /\ sent = <<>> /\ outcome = None
    /\ exit_code = None

RunIdle ==
    /\ mpc = "idle" /\ env = None /\ health_check_only = FALSE /\ use_images = FALSE
    /\ social_set_id = None /\ stdin = None /\ image_paths = <<>> /\ up_i = 1
    /\ health = None /\ events = <<>>

NumberIdle ==
    /\ num = 0 /\ include_sign = FALSE /\ out_df = None /\ out_ft = None /\ out_img = None

UploadIdle ==
    /\ upc = "idle" /\ upload_data = None /\ polls = <<>> /\ poll_sleeps = 0
    /\ upload_outcome = None

\* fetch_all_positions(tokens, api_key) has been called: `results = {}`,
\* `errors = []`.
InitFetch ==
    /\ tokens \in TokenLists
    /\ ti = 1 /\ pc = "next_token" /\ attempt = 0
    /\ backoff = INITIAL_BACKOFF /\ last_error = None
    /\ results = <<>> /\ errors = <<>> /\ reqlog = <<>> /\ produced = <<>>
    /\ spent = NothingSpent
    /\ FormatIdle /\ PublishIdle /\ RunIdle /\ NumberIdle /\ UploadIdle

NextFetch ==
    \/ NextToken
    \/ ReturnResults
    \/ RequestOk
    \/ RequestBadJson
    \/ RequestTimeout
    \/ RequestFails
    \/ RequestStatus
    \/ Sleep

SpecFetch == InitFetch /\ [][NextFetch]_vars

---------------------------------------------------------------------------
(* The thread formatters.  A text is the sequence of its lines; a line is  *)
(* a record naming what the f-string prints there.                         *)

Blank == [kind |-> "blank"]
TextIsEmpty(text) == \A i \in 1..Len(text) : text[i] = Blank

Longs(ps)  == Cardinality({i \in 1..Len(ps) : ps[i].side = "Long"})
Shorts(ps) == Cardinality({i \in 1..Len(ps) : ps[i].side = "Short"})

\* The summary header of a token; the first token's carries the date.
Header(token, ps, dated, shorts) ==
    [kind |-> "header", token |-> token, top |-> Len(ps), dated |-> dated,
     longs |-> Longs(ps), shorts |-> shorts]
NoPositionsLine(token) == [kind |-> "no_positions", token |-> token]
PositionLine(rank, p) == [kind |-> "position", rank |-> rank, position |-> p]

\* format_footer_tweet, and the footer literal of daily_feed.py.
FooterPost == [text |-> <<[kind |-> "footer"]>>]

\* `posts.append(<footer>)`
WithFooterUnlessEmpty(ps) == IF ps = <<>> THEN ps ELSE Append(ps, FooterPost)
WithFooter(ps) == Append(ps, FooterPost)

\* data.get(token, {}) followed by the isinstance tests: the positions of
\* a token in the aggregate (an absent key, an error marker, a null or a
\* missing data value give none; a bare list is taken as the positions).
PositionsOf(d, token) ==
    IF ~DictHas(d, token) THEN <<>>
    ELSE LET td == DictGet(d, token)
         IN  IF td.kind \in {"object", "array"} THEN td.data ELSE <<>>

\* "\n\n".join(rows) of daily_feed.format_token_tweet.
RECURSIVE JoinRows(_, _)
JoinRows(ps, k) ==
    IF k > Len(ps) THEN <<>>
    ELSE <<PositionLine(k, ps[k])>>
         \o (IF k < Len(ps) THEN <<Blank>> ELSE <<>>)
         \o JoinRows(ps, k + 1)

\* daily_feed.format_token_tweet: one tweet for all positions of a token.
format_token_tweet(token, ps, is_first) ==
    IF ps = <<>> THEN [text |-> <<NoPositionsLine(token)>>]
    ELSE [text |-> <<Header(token, ps, is_first, Shorts(ps)), Blank>> \o JoinRows(ps, 1)]

\* A chunk tweet whose ranks would start at 1 in every chunk.
ChunkTweetRankInChunk(token, ps, is_first, chunk_idx) ==
    LET total == Len(ps)
        last == IF chunk_idx + POSITIONS_PER_TWEET < total
                THEN chunk_idx + POSITIONS_PER_TWEET ELSE total
        header == IF chunk_idx = 0
                  THEN [kind |-> "header", token |-> token, top |-> Len(ps), dated |-> is_first,
                        longs |-> Cardinality({i \in 1..Len(ps) : ps[i].side = "Long"}),
                        shorts |-> Cardinality({i \in 1..Len(ps) : ps[i].side = "Short"})]
                  ELSE [kind |-> "continuation", token |-> token,
                        chunk_num |-> (chunk_idx \div POSITIONS_PER_TWEET) + 1,
                        total_chunks |-> (total + POSITIONS_PER_TWEET - 1) \div POSITIONS_PER_TWEET]
    IN  [text |-> <<header, [kind |-> "blank"]>>
                  \o [i \in 1..(last - chunk_idx) |->
                        [kind |-> "position", rank |-> i, position |-> ps[chunk_idx + i]]]]

\* format_thread.format_token_tweets: the tweet of the chunk that starts at
\* chunk_idx (0-based), and the list of them for range(0, total, 5).
ChunkTweet(token, ps, is_first, chunk_idx) ==
    LET total == Len(ps)
        last == IF chunk_idx + POSITIONS_PER_TWEET < total
                THEN chunk_idx + POSITIONS_PER_TWEET ELSE total
        chunk_num == (chunk_idx \div POSITIONS_PER_TWEET) + 1
        total_chunks == (total + POSITIONS_PER_TWEET - 1) \div POSITIONS_PER_TWEET
        header == IF chunk_idx = 0
                  THEN Header(token, ps, is_first, Shorts(ps))
                  ELSE [kind |-> "continuation", token |-> token,
                        chunk_num |-> chunk_num, total_chunks |-> total_chunks]
    IN  [text |-> <<header, Blank>>
                  \o [i \in 1..(last - chunk_idx) |-> PositionLine(chunk_idx + i, ps[chunk_idx + i])]]

RECURSIVE ChunkTweets(_, _, _, _)
ChunkTweets(token, ps, is_first, chunk_idx) ==
    IF chunk_idx >= Len(ps) THEN <<>>
    ELSE <<ChunkTweet(token, ps, is_first, chunk_idx)>>
         \o ChunkTweets(token, ps, is_first, chunk_idx + POSITIONS_PER_TWEET)

format_token_tweets(token, ps, is_first) ==
    IF ps = <<>> THEN <<[text |-> <<NoPositionsLine(token)>>]>>
    ELSE ChunkTweets(token, ps, is_first, 0)

\* The body of `for idx, token in enumerate(TOKENS)` from index k on
\* (k is 1-based, idx = k - 1), for each formatter.
RECURSIVE DailyFeedTokenPosts(_, _)
DailyFeedTokenPosts(d, k) ==
    IF k > Len(TOKENS) THEN <<>>
    ELSE LET ps == PositionsOf(d, TOKENS[k])
         IN  (IF ps # <<>> THEN <<format_token_tweet(TOKENS[k], ps, k - 1 = 0)>> ELSE <<>>)
             \o DailyFeedTokenPosts(d, k + 1)

RECURSIVE ScriptTokenPosts(_, _)
ScriptTokenPosts(d, k) ==
    IF k > Len(TOKENS) THEN <<>>
    ELSE LET ps == PositionsOf(d, TOKENS[k])
         IN  (IF ps # <<>> THEN format_token_tweets(TOKENS[k], ps, k - 1 = 0) ELSE <<>>)
             \o ScriptTokenPosts(d, k + 1)

\* One caption post of format_thread_with_images (idx is 0-based).
ImagePost(token, ps, idx, mids) ==
    LET caption == [text |-> <<Header(token, ps, idx = 0, Len(ps) - Longs(ps))>>]
    IN  IF idx < Len(mids)
        THEN [text |-> caption.text, media_ids |-> <<mids[idx + 1]>>]
        ELSE caption

RECURSIVE ImageTokenPosts(_, _, _)
ImageTokenPosts(d, mids, k) ==
    IF k > Len(TOKENS) THEN <<>>
    ELSE LET ps == PositionsOf(d, TOKENS[k])
         IN  (IF ps # <<>> THEN <<ImagePost(TOKENS[k], ps, k - 1, mids)>> ELSE <<>>)
             \o ImageTokenPosts(d, mids, k + 1)

\* A formatter that would follow the insertion order of the aggregate.
RECURSIVE KeyOrderTokenPosts(_, _)
KeyOrderTokenPosts(d, k) ==
    IF k > Len(d) THEN <<>>
    ELSE LET ps == PositionsOf(d, d[k].key)
         IN  (IF ps # <<>> THEN format_token_tweets(d[k].key, ps, k = 1) ELSE <<>>)
             \o KeyOrderTokenPosts(d, k + 1)
ScriptFormatThreadInKeyOrder(d) == WithFooter(KeyOrderTokenPosts(d, 1))

\* daily_feed.format_thread
DailyFeedFormatThread(d) == WithFooter(DailyFeedTokenPosts(d, 1))
\* format_thread.format_thread
ScriptFormatThread(d) == WithFooter(ScriptTokenPosts(d, 1))
\* daily_feed.format_thread_with_images
format_thread_with_images(d, mids) == WithFooter(ImageTokenPosts(d, mids, 1))

\* The aggregates handed to a formatter: up to MaxKeys symbols, in any
\* order, each with an error marker or a response body.
TokenSet == {TOKENS[i] : i \in 1..Len(TOKENS)}
\* The keys of an aggregate: fetch_positions.py --tokens=... puts any
\* symbols there, in any order.
KeyNames == TokenSet \cup {"DOGE"}
KeyLists ==
    {ks \in UNION {[1..n -> KeyNames] : n \in 0..MaxKeys} :
        \A i, j \in 1..Len(ks) : i # j => ks[i] # ks[j]}
TokenResults ==
    {ErrorEntry(JSONDecodeError), ErrorEntry(HTTPStatusError(404))}
    \cup {ObjectBody(ps) : ps \in PositionLists}
    \cup {[kind |-> "object_nodata", data |-> <<>>], [kind |-> "array", data |-> PositionList(1)]}
\* The aggregate with the keys ks and the values vs, in this order.
Aggregate(ks, vs) == [i \in 1..Len(ks) |-> [key |-> ks[i], value |-> vs[i]]]
MediaLists == {[i \in 1..n |-> i] : n \in 0..MaxMedia}

FormatDailyFeed ==
    /\ fmt = "none"
    /\ fmt' = "daily_feed.format_thread"
    /\ posts' = DailyFeedFormatThread(data)
    /\ UNCHANGED <<data, media_ids>>
    /\ UNCHANGED <<fetchVars, publishVars, runVars, numberVars, uploadVars>>

FormatScript ==
    /\ fmt = "none"
    /\ fmt' = "format_thread.format_thread"
    /\ posts' = ScriptFormatThread(data)
    /\ UNCHANGED <<data, media_ids>>
    /\ UNCHANGED <<fetchVars, publishVars, runVars, numberVars, uploadVars>>

FormatWithImages ==
    /\ fmt = "none"
    /\ \E mids \in MediaLists :
        /\ media_ids' = mids
        /\ posts' = format_thread_with_images(data, mids)
    /\ fmt' = "daily_feed.format_thread_with_images"
    /\ UNCHANGED data
    /\ UNCHANGED <<fetchVars, publishVars, runVars, numberVars, uploadVars>>

InitFormat ==
    /\ \E ks \in KeyLists : \E vs \in [1..Len(ks) -> TokenResults] :
          data = Aggregate(ks, vs)
    /\ media_ids = <<>> /\ fmt = "none" /\ posts = <<>>
    /\ FetchIdle /\ PublishIdle /\ RunIdle /\ NumberIdle /\ UploadIdle

NextFormat ==
    \/ FormatDailyFeed
    \/ FormatScript
    \/ FormatWithImages

SpecFormat == InitFormat /\ [][NextFormat]_vars

---------------------------------------------------------------------------
(* The publisher: post_typefully.create_draft and                          *)
(* daily_feed.post_to_typefully, each followed by what its caller does     *)
(* with the result.                                                        *)

Minutes(n) == [type |-> "int", minutes |-> n]
OverflowError == [type |-> "OverflowError"]

\* `if schedule_minutes:` is false for None and for 0.
IsScheduled(sch) == sch # None /\ sch.minutes # 0

\* datetime.now(timezone.utc) + timedelta(minutes=schedule_minutes): an
\* instant a datetime cannot hold raises OverflowError.
Representable(t) == 0 <= t /\ t <= MaxTime
PublishAtOverflows(t, sch) == IsScheduled(sch) /\ ~Representable(t + sch.minutes)

\* The platforms of the payload: create_draft enables x and threads,
\* post_to_typefully x alone.
Platforms(sc) == IF sc = "post_typefully" THEN {"x", "threads"} ELSE {"x"}

\* The posts put under each platform of the payload.
PayloadPostsFirstOnly(ps) == SubSeq(ps, 1, 1)
PayloadPosts(ps) == ps

\* The payload dict, with publish_at only when a schedule is given.
BuildPayload(sc, ps, t, sch) ==
    LET base == [platforms |-> [pl \in Platforms(sc) |-> [enabled |-> TRUE, posts |-> PayloadPosts(ps)]],
                 share |-> TRUE]
    IN  IF IsScheduled(sch)
        THEN [platforms |-> base.platforms, share |-> TRUE, publish_at |-> t + sch.minutes]
        ELSE base

\* `return {"id": "dry_run", "status": "draft", "posts_count": len(posts)}`
DryRunResult(ps) == [id |-> "dry_run", status |-> "draft", posts_count |-> Len(ps)]
\* response.json() of a created draft.
DraftDescriptor == [id |-> "draft", status |-> "created"]

\* `if dry_run:` returns before the request.
SkipsRequestNever(dr) == FALSE
SkipsRequest(dr) == dr

\* Where the publisher stands after a failed draft request: the exception
\* leaves the function.
AfterDraftErrorRetry == "start"
AfterDraftError == "raised"

\* The request is issued with the payload and the publisher ends as f.
SendDraft(f) ==
    /\ ~PublishAtOverflows(now, schedule)
    /\ ~SkipsRequest(dry_run)
    /\ payload' = BuildPayload(script, thread, now, schedule)
    /\ sent' = Append(sent, payload')
    /\ outcome' = f
    /\ ppc' = IF f.raised THEN AfterDraftError ELSE "returned"
    /\ UNCHANGED <<script, dry_run, schedule, now, thread, exit_code>>
    /\ UNCHANGED <<fetchVars, formatVars, runVars, numberVars, uploadVars>>

\* The timestamp computation raises before the dry_run test.
PublishOverflow ==
    /\ ppc = "start"
    /\ PublishAtOverflows(now, schedule)
    /\ outcome' = Raised(OverflowError)
    /\ ppc' = "raised"
    /\ UNCHANGED <<script, dry_run, schedule, now, thread, payload, sent, exit_code>>
    /\ UNCHANGED <<fetchVars, formatVars, runVars, numberVars, uploadVars>>

\* dry_run: the synthetic result, no request.
PublishDryRun ==
    /\ ppc = "start"
    /\ ~PublishAtOverflows(now, schedule)
    /\ SkipsRequest(dry_run)
    /\ payload' = BuildPayload(script, thread, now, schedule)
    /\ outcome' = Returned(DryRunResult(thread))
    /\ ppc' = "returned"
    /\ UNCHANGED <<script, dry_run, schedule, now, thread, sent, exit_code>>
    /\ UNCHANGED <<fetchVars, formatVars, runVars, numberVars, uploadVars>>

\* The drafting API answers 2xx: `return response.json()`.
DraftCreated ==
    /\ ppc = "start"
    /\ SendDraft(Returned(DraftDescriptor))

\* The drafting API answers with an error status: raise_for_status raises.
DraftRejected ==
    /\ ppc = "start"
    /\ \E c \in ErrorStatuses : SendDraft(Raised(HTTPStatusError(c)))

\* The request times out or fails on the network.
DraftRequestFails ==
    /\ ppc = "start"
    /\ \E e \in {TimeoutException, RequestError} : SendDraft(Raised(e))

\* The caller ends: both mains exit 0 with the result printed, daily_feed's
\* main returns 1 from its except clauses, post_typefully's main lets the
\* exception end the process (exit code 1).  daily_feed's main never calls
\* post_to_typefully with dry_run set, so that call has no caller here.
CallerExits ==
    /\ ppc \in {"returned", "raised"}
    /\ ~(script = "daily_feed" /\ dry_run)
    /\ exit_code' = [type |-> "int", code |-> IF ppc = "returned" THEN 0 ELSE 1]
    /\ ppc' = "exited"
    /\ UNCHANGED <<script, dry_run, schedule, now, thread, payload, sent, outcome>>
    /\ UNCHANGED <<fetchVars, formatVars, runVars, numberVars, uploadVars>>

\* The post sequences handed to the publisher: threads the formatters make.
SampleAggregates ==
    {<<>>,
     <<[key |-> "BTC", value |-> ObjectBody(PositionList(1))]>>,
     <<[key |-> "BTC", value |-> ObjectBody(PositionList(2))],
       [key |-> "ETH", value |-> ObjectBody(PositionList(1))]>>}
Threads ==
    {DailyFeedFormatThread(a) : a \in SampleAggregates}
    \cup {format_thread_with_images(a, <<1>>) : a \in SampleAggregates}

\* The values int() gives --schedule=N, and None without the flag.
Schedules == {None} \cup {Minutes(n) : n \in -(MaxTime + 1)..(MaxTime + 1)}
Clock == {1, 2}

InitPublish ==
    /\ script \in {"post_typefully", "daily_feed"}
    /\ dry_run \in BOOLEAN
    /\ schedule \in Schedules
    /\ now \in Clock
    /\ thread \in Threads
    /\ ppc = "start" /\ payload = None /\ sent = <<>> /\ outcome = None
    /\ exit_code = None
    /\ FetchIdle /\ FormatIdle /\ RunIdle /\ NumberIdle /\ UploadIdle

NextPublish ==
    \/ PublishOverflow
    \/ PublishDryRun
    \/ DraftCreated
    \/ DraftRejected
    \/ DraftRequestFails
    \/ CallerExits

SpecPublish == InitPublish /\ [][NextPublish]_vars

---------------------------------------------------------------------------
(* The entry points: daily_feed.main and post_typefully.main, from the     *)
(* parsed command line to the exit code.                                   *)

ValueError == [type |-> "ValueError"]
Exit(c) == [type |-> "int", code |-> c]

\* The value of TYPEFULLY_SOCIAL_SET_ID, or of str(social_set["id"]): a
\* string that int() accepts or one it rejects.
IdString(numeric) == [type |-> "str", numeric |-> numeric]
SocialSetIds == {None, IdString(TRUE), IdString(FALSE)}

\* os.environ as the two mains read it: whether each key is set to a
\* non-empty value (`not env[...]` holds for an unset and for an empty one).
Environments ==
    [nansen_api_key : BOOLEAN, typefully_api_key : BOOLEAN, typefully_social_set_id : SocialSetIds]

\* validate_environment: `if not dry_run and not env["typefully_api_key"]`.
TypefullyKeyRequiredNever(dr) == FALSE
TypefullyKeyRequiredAlways(dr) == TRUE
TypefullyKeyRequired(dr) == ~dr

\* The list `errors` of validate_environment.
EnvironmentErrors(ev, dr) ==
    (IF ~ev.nansen_api_key THEN <<"NANSEN_API_KEY is not set">> ELSE <<>>)
    \o (IF TypefullyKeyRequired(dr) /\ ~ev.typefully_api_key
        THEN <<"TYPEFULLY_API_KEY is not set">> ELSE <<>>)

\* Observations: a network request, a probe of health_check with the
\* answer it got, a call of generate_all_images, a call of a formatter.
Request(api, op, arg) == [ev |-> "request", api |-> api, op |-> op, arg |-> arg]
Probe(api, a) == [ev |-> "request", api |-> api, op |-> "probe", answer |-> a]
GenerateEvent == [ev |-> "generate_images"]
GenerateFailedEvent == [ev |-> "generate_images", raised |-> TRUE]
FormatEvent == [ev |-> "format"]

\* What a probe of health_check meets: an answer with a status, or an
\* exception of the client (the service is unreachable).
Answer(c) == [reached |-> TRUE, status |-> c]
Unreachable == [reached |-> FALSE, status |-> 0]
ProbeAnswers == {Answer(200), Answer(404), Answer(500), Unreachable}
\* `response.status_code == 200`; the except clause leaves the entry False.
ProbeOk(a) == a.reached /\ a.status = 200

\* `return 0 if all([status["nansen"], status.get("typefully", True)]) else 1`:
\* health_check always puts the key "typefully" in the dict, so the default
\* of .get is never taken.
HealthExitCodeNansenOnly(st) == IF st.nansen THEN 0 ELSE 1
HealthExitCode(st) == IF st.nansen /\ st.typefully THEN 0 ELSE 1

\* Where daily_feed.main goes after the fetch: `if use_images:` comes
\* before the formatting.
AfterFetchStraightToFormat(ui) == "format"
AfterFetch(ui) == IF ui THEN "generate" ELSE "format"

\* generate_all_images: one image per token of TOKENS that has positions.
ImageTokens(d) == SelectSeq(TOKENS, LAMBDA t : PositionsOf(d, t) # <<>>)
\* The media_id upload_media_to_typefully returns for the image of a token.
MediaId(token) == [type |-> "media", image |-> token]
\* `[f"img_{i}" for i in range(len(image_paths))]`
Placeholders(n) == [i \in 1..n |-> [type |-> "placeholder", index |-> i - 1]]

\* The exit code after the draft request ended as f: both except clauses
\* of daily_feed.main return 1, and an exception that leaves
\* post_typefully.main ends the process with 1.
PublishExitCodeZero(f) == 0
PublishExitCode(f) == IF f.raised THEN 1 ELSE 0

\* What the runs of the model meet.
FetchOutcomes(token) ==
    {Returned(ObjectBody(PositionList(2))), Raised(RuntimeError(token, TimeoutException))}
DraftOutcomes ==
    {Returned(DraftDescriptor), Raised(HTTPStatusError(500)), Raised(TimeoutException)}
\* json.load(sys.stdin) of post_typefully.main.
StdinValues ==
    {[kind |-> "invalid", posts |-> <<>>], [kind |-> "object", posts |-> <<>>],
     [kind |-> "list", posts |-> <<>>],
     [kind |-> "list", posts |-> DailyFeedFormatThread(<<[key |-> "BTC", value |-> ObjectBody(PositionList(1))]>>)]}
RunSchedules == {None, Minutes(0), Minutes(1), Minutes(MaxTime)}

\* Variables a run never writes, and the groups it writes.
runFixed   == <<script, dry_run, schedule, now, ppc, env, health_check_only, stdin,
                tokens, pc, attempt, backoff, last_error, reqlog, spent, numberVars, uploadVars>>
fetchState == <<ti, results, errors, produced, data>>
imageState == <<use_images, image_paths, up_i, media_ids>>
draftState == <<thread, payload, sent, outcome>>

ExitWith(c) == exit_code' = Exit(c) /\ mpc' = "exited"

\* validate_environment found a missing key: sys.exit(1).
ValidateEnvironmentExits ==
    /\ mpc = "validate" /\ script = "daily_feed"
    /\ EnvironmentErrors(env, dry_run) # <<>>
    /\ ExitWith(1)
    /\ UNCHANGED <<runFixed, fetchState, imageState, draftState, fmt, posts, social_set_id, health, events>>

\* validate_environment returns env; `if health_check_only:` follows.
ValidateEnvironmentReturns ==
    /\ mpc = "validate" /\ script = "daily_feed"
    /\ EnvironmentErrors(env, dry_run) = <<>>
    /\ mpc' = IF health_check_only THEN "health_nansen" ELSE "social_set"
    /\ UNCHANGED <<runFixed, fetchState, imageState, draftState, fmt, posts, social_set_id, health,
                   events, exit_code>>

\* health_check: the dict `status` starts with both services False, and
\* the position API is probed.
ProbeNansen ==
    /\ mpc = "health_nansen"
    /\ \E a \in ProbeAnswers :
        /\ health' = [nansen |-> ProbeOk(a), typefully |-> FALSE]
        /\ events' = Append(events, Probe("nansen", a))
    /\ mpc' = "health_typefully"
    /\ UNCHANGED <<runFixed, fetchState, imageState, draftState, fmt, posts, social_set_id, exit_code>>

\* `if env.get("typefully_api_key"):` the drafting API is probed.
ProbeTypefully ==
    /\ mpc = "health_typefully"
    /\ env.typefully_api_key
    /\ \E a \in ProbeAnswers :
        /\ health' = [health EXCEPT !.typefully = ProbeOk(a)]
        /\ events' = Append(events, Probe("typefully", a))
    /\ mpc' = "health_exit"
    /\ UNCHANGED <<runFixed, fetchState, imageState, draftState, fmt, posts, social_set_id, exit_code>>

\* Without the key the drafting API is not probed.
SkipTypefullyProbe ==
    /\ mpc = "health_typefully"
    /\ ~env.typefully_api_key
    /\ mpc' = "health_exit"
    /\ UNCHANGED <<runFixed, fetchState, imageState, draftState, fmt, posts, social_set_id, health,
                   events, exit_code>>

\* main returns the exit code of the health check.
HealthCheckExits ==
    /\ mpc = "health_exit"
    /\ ExitWith(HealthExitCode(health))
    /\ UNCHANGED <<runFixed, fetchState, imageState, draftState, fmt, posts, social_set_id, health, events>>

\* post_typefully.main: `if not api_key:` sys.exit(1), whatever the flags.
ScriptKeyMissing ==
    /\ mpc = "validate" /\ script = "post_typefully"
    /\ ~env.typefully_api_key
    /\ ExitWith(1)
    /\ UNCHANGED <<runFixed, fetchState, imageState, draftState, fmt, posts, social_set_id, health, events>>

ScriptKeyPresent ==
    /\ mpc = "validate" /\ script = "post_typefully"
    /\ env.typefully_api_key
    /\ mpc' = "social_set"
    /\ UNCHANGED <<runFixed, fetchState, imageState, draftState, fmt, posts, social_set_id, health,
                   events, exit_code>>

\* Where a main goes once it has its social set id.
AfterSocialSet == IF script = "daily_feed" THEN "fetch" ELSE "stdin"

\* `if not social_set_id and not dry_run:` the social set is looked up.
NeedsDiscoveryAlsoInDryRun(configured, dr) == ~configured
NeedsDiscovery(configured, dr) == ~configured /\ ~dr

\* The id is configured, or the run is a dry run: no discovery.  A dry run
\* of post_typefully.main takes "0", one of daily_feed.main keeps None.
SocialSetKnown ==
    /\ mpc = "social_set"
    /\ ~NeedsDiscovery(env.typefully_social_set_id # None, dry_run)
    /\ social_set_id' = IF env.typefully_social_set_id # None THEN env.typefully_social_set_id
                        ELSE IF script = "post_typefully" THEN IdString(TRUE) ELSE None
    /\ mpc' = AfterSocialSet
    /\ UNCHANGED <<runFixed, fetchState, imageState, draftState, fmt, posts, health, events, exit_code>>

\* get_social_sets answers with a non-empty list: the first set is used.
DiscoverSocialSet ==
    /\ mpc = "social_set"
    /\ NeedsDiscovery(env.typefully_social_set_id # None, dry_run)
    /\ events' = Append(events, Request("typefully", "social_sets", ""))
    /\ social_set_id' = IdString(TRUE)
    /\ mpc' = AfterSocialSet
    /\ UNCHANGED <<runFixed, fetchState, imageState, draftState, fmt, posts, health, exit_code>>

\* get_social_sets answers with an empty list, or raises: daily_feed.main
\* returns 1, post_typefully.main exits 1 or dies of the exception.
DiscoverSocialSetFails ==
    /\ mpc = "social_set"
    /\ NeedsDiscovery(env.typefully_social_set_id # None, dry_run)
    /\ events' = Append(events, Request("typefully", "social_sets", ""))
    /\ ExitWith(1)
    /\ UNCHANGED <<runFixed, fetchState, imageState, draftState, fmt, posts, social_set_id, health>>

\* One round of the for-loop of fetch_all_positions(TOKENS, ...): the
\* fetch of tokens[ti] ends as f, after at least one request.
RunFetchToken ==
    /\ mpc = "fetch"
    /\ ti <= Len(tokens)
    /\ \E f \in FetchOutcomes(tokens[ti]) :
        /\ results' = StoreResult(results, tokens[ti], f)
        /\ errors' = StoreError(errors, tokens[ti], f)
        /\ produced' = Append(produced, f)
        /\ ti' = NextIndex(ti, Len(tokens), Caught(f) # None)
    /\ events' = Append(events, Request("nansen", "positions", tokens[ti]))
    /\ UNCHANGED <<runFixed, imageState, draftState, fmt, posts, social_set_id, health, data,
                   mpc, exit_code>>

\* `data = fetch_all_positions(...)` returns; `if use_images:` follows.
RunFetchReturns ==
    /\ mpc = "fetch"
    /\ ti > Len(tokens)
    /\ data' = results
    /\ mpc' = AfterFetch(use_images)
    /\ UNCHANGED <<runFixed, ti, results, errors, produced, imageState, draftState, fmt, posts,
                   social_set_id, health, events, exit_code>>

\* generate_all_images returns the paths; the uploads follow unless the
\* run is a dry run.
GenerateImages ==
    /\ mpc = "generate"
    /\ image_paths' = ImageTokens(data)
    /\ events' = Append(events, GenerateEvent)
    /\ mpc' = IF dry_run THEN "format" ELSE "upload"
    /\ UNCHANGED <<runFixed, fetchState, use_images, up_i, media_ids, draftState, fmt, posts,
                   social_set_id, health, exit_code>>

\* `use_images = False` in the except clause around the image generation.
UseImagesAfterFailureKept(ui) == ui
UseImagesAfterFailure(ui) == FALSE

\* generate_all_images raises: `use_images = False`, image_paths stays [].
GenerateImagesFails ==
    /\ mpc = "generate"
    /\ use_images' = UseImagesAfterFailure(use_images)
    /\ events' = Append(events, GenerateFailedEvent)
    /\ mpc' = "format"
    /\ UNCHANGED <<runFixed, fetchState, image_paths, up_i, media_ids, draftState, fmt, posts,
                   social_set_id, health, exit_code>>

\* One round of `for img_path in image_paths`: the upload returns a media
\* id, which is appended, or raises, which is logged as a warning.
UploadImage ==
    /\ mpc = "upload"
    /\ up_i <= Len(image_paths)
    /\ social_set_id.numeric
    /\ events' = Append(events, Request("typefully", "upload", image_paths[up_i]))
    /\ \E ok \in BOOLEAN :
        media_ids' = IF ok THEN Append(media_ids, MediaId(image_paths[up_i])) ELSE media_ids
    /\ up_i' = up_i + 1
    /\ UNCHANGED <<runFixed, fetchState, use_images, image_paths, draftState, fmt, posts,
                   social_set_id, health, mpc, exit_code>>

\* int(social_set_id) raises ValueError inside the try of the round: no
\* request, a warning.
UploadImageBadId ==
    /\ mpc = "upload"
    /\ up_i <= Len(image_paths)
    /\ ~social_set_id.numeric
    /\ up_i' = up_i + 1
    /\ UNCHANGED <<runFixed, fetchState, use_images, image_paths, media_ids, draftState, fmt, posts,
                   social_set_id, health, events, mpc, exit_code>>

UploadsDone ==
    /\ mpc = "upload"
    /\ up_i > Len(image_paths)
    /\ mpc' = "format"
    /\ UNCHANGED <<runFixed, fetchState, imageState, draftState, fmt, posts, social_set_id, health,
                   events, exit_code>>

\* "Formatting thread...": the image formatter with the uploaded ids (the
\* placeholders in a dry run), or the text formatter.
FormatThread ==
    /\ mpc = "format"
    /\ fmt' = IF use_images THEN "daily_feed.format_thread_with_images"
              ELSE "daily_feed.format_thread"
    /\ posts' = IF use_images
                THEN format_thread_with_images(data, IF dry_run THEN Placeholders(Len(image_paths))
                                                     ELSE media_ids)
                ELSE DailyFeedFormatThread(data)
    /\ events' = Append(events, FormatEvent)
    /\ mpc' = IF dry_run THEN "preview" ELSE "publish"
    /\ thread' = IF dry_run THEN thread ELSE posts'
    /\ UNCHANGED <<runFixed, fetchState, imageState, payload, sent, outcome, social_set_id, health,
                   exit_code>>

\* `if dry_run:` the thread is printed and main returns 0.
DryRunPreview ==
    /\ mpc = "preview"
    /\ ExitWith(0)
    /\ UNCHANGED <<runFixed, fetchState, imageState, draftState, fmt, posts, social_set_id, health, events>>

\* post_typefully.main: the input is no JSON, no list, or an empty list.
ReadPostsExits ==
    /\ mpc = "stdin"
    /\ stdin.kind # "list" \/ stdin.posts = <<>>
    /\ ExitWith(1)
    /\ UNCHANGED <<runFixed, fetchState, imageState, draftState, fmt, posts, social_set_id, health, events>>

ReadPosts ==
    /\ mpc = "stdin"
    /\ stdin.kind = "list" /\ stdin.posts # <<>>
    /\ thread' = stdin.posts
    /\ mpc' = "publish"
    /\ UNCHANGED <<runFixed, fetchState, imageState, payload, sent, outcome, fmt, posts,
                   social_set_id, health, events, exit_code>>

\* int(social_set_id), evaluated for the call of the publisher, raises
\* ValueError: daily_feed.main returns 1 from `except Exception`,
\* post_typefully.main dies of it.
PublishBadSocialSetId ==
    /\ mpc = "publish"
    /\ ~social_set_id.numeric
    /\ outcome' = Raised(ValueError)
    /\ ExitWith(1)
    /\ UNCHANGED <<runFixed, fetchState, imageState, thread, payload, sent, fmt, posts,
                   social_set_id, health, events>>

\* The publisher raises OverflowError while it computes publish_at.
PublishRaisesOverflow ==
    /\ mpc = "publish"
    /\ social_set_id.numeric
    /\ PublishAtOverflows(now, schedule)
    /\ outcome' = Raised(OverflowError)
    /\ ExitWith(1)
    /\ UNCHANGED <<runFixed, fetchState, imageState, thread, payload, sent, fmt, posts,
                   social_set_id, health, events>>

\* create_draft with dry_run set (post_typefully.main only: daily_feed.main
\* has returned before): the synthetic result is printed.
PublishPreview ==
    /\ mpc = "publish"
    /\ social_set_id.numeric
    /\ ~PublishAtOverflows(now, schedule)
    /\ SkipsRequest(dry_run)
    /\ payload' = BuildPayload(script, thread, now, schedule)
    /\ outcome' = Returned(DryRunResult(thread))
    /\ ExitWith(0)
    /\ UNCHANGED <<runFixed, fetchState, imageState, thread, sent, fmt, posts, social_set_id,
                   health, events>>

\* The draft request is sent and ends as f.
PublishSends ==
    /\ mpc = "publish"
    /\ social_set_id.numeric
    /\ ~PublishAtOverflows(now, schedule)
    /\ ~SkipsRequest(dry_run)
    /\ payload' = BuildPayload(script, thread, now, schedule)
    /\ sent' = Append(sent, payload')
    /\ events' = Append(events, Request("typefully", "draft", ""))
    /\ \E f \in DraftOutcomes :
        /\ outcome' = f
        /\ ExitWith(PublishExitCode(f))
    /\ UNCHANGED <<runFixed, fetchState, imageState, thread, fmt, posts, social_set_id, health>>

\* parse_args has returned: the flags are those of the command line
\* (post_typefully.py knows --dry-run and --schedule only).
InitRun ==
    /\ script \in {"daily_feed", "post_typefully"}
    /\ dry_run \in BOOLEAN
    /\ schedule \in RunSchedules
    /\ now = 1
    /\ env \in Environments
    /\ IF script = "daily_feed"
       THEN /\ health_check_only \in BOOLEAN /\ use_images \in BOOLEAN
            /\ stdin = None /\ tokens = TOKENS
       ELSE /\ health_check_only = FALSE /\ use_images = FALSE
            /\ stdin \in StdinValues /\ tokens = <<>>
    /\ mpc = "validate"
    /\ social_set_id = None /\ image_paths = <<>> /\ up_i = 1 /\ health = None /\ events = <<>>
    /\ ti = 1 /\ pc = "idle" /\ attempt = 0 /\ backoff = INITIAL_BACKOFF /\ last_error = None
    /\ results = <<>> /\ errors = <<>> /\ reqlog = <<>> /\ produced = <<>>
    /\ spent = NothingSpent
    /\ FormatIdle
    /\ thread = <<>> /\ ppc = "idle" /\ payload = None /\ sent = <<>> /\ outcome = None
    /\ exit_code = None
    /\ NumberIdle /\ UploadIdle

NextRun ==
    \/ ValidateEnvironmentExits
    \/ ValidateEnvironmentReturns
    \/ ProbeNansen
    \/ ProbeTypefully
    \/ SkipTypefullyProbe
    \/ HealthCheckExits
    \/ ScriptKeyMissing
    \/ ScriptKeyPresent
    \/ SocialSetKnown
    \/ DiscoverSocialSet
    \/ DiscoverSocialSetFails
    \/ RunFetchToken
    \/ RunFetchReturns
    \/ GenerateImages
    \/ GenerateImagesFails
    \/ UploadImage
    \/ UploadImageBadId
    \/ UploadsDone
    \/ FormatThread
    \/ DryRunPreview
    \/ ReadPostsExits
    \/ ReadPosts
    \/ PublishBadSocialSetId
    \/ PublishRaisesOverflow
    \/ PublishPreview
    \/ PublishSends

SpecRun == InitRun /\ [][NextRun]_vars

---------------------------------------------------------------------------
(* format_number of daily_feed.py, format_thread.py and                    *)
(* generate_table_image.py.  The value is a whole number of dollars; the   *)
(* result is the record of the pieces the f-string prints: the prefix,     *)
(* the digits before the point, the digits after it (none under .0f) and   *)
(* the suffix.  Two results are the same string iff they are equal.        *)

Abs(x) == IF x < 0 THEN -x ELSE x

\* a / den rounded to the nearest integer, a tie to the even one: what
\* the format specification does with a quotient the float holds exactly.
RoundHalfEven(a, den) ==
    LET q == a \div den
        r == a % den
    IN  IF 2 * r > den THEN q + 1
        ELSE IF 2 * r < den THEN q
        ELSE q + (q % 2)

\* f"{a / unit:.1f}" and f"{a / unit:.0f}"
OneDecimal(a, unit) ==
    LET t == RoundHalfEven(a, unit \div 10)
    IN  [whole |-> t \div 10, frac |-> <<t % 10>>]
NoDecimal(a, unit) == [whole |-> RoundHalfEven(a, unit), frac |-> <<>>]

Rendered(prefix, digits, suffix) ==
    [prefix |-> prefix, whole |-> digits.whole, frac |-> digits.frac, suffix |-> suffix]

\* `sign = "+" if include_sign and n > 0`, `prefix = "-" if n < 0 else sign`
SignPrefixIgnoringFlag(v, s) == IF v < 0 THEN "-" ELSE IF v > 0 THEN "+" ELSE ""
SignPrefix(v, s) == IF v < 0 THEN "-" ELSE IF s /\ v > 0 THEN "+" ELSE ""

\* f"{a / unit:.{decimals}f}" for the two precisions the functions use.
Digits(a, unit, decimals) == IF decimals = 1 THEN OneDecimal(a, unit) ELSE NoDecimal(a, unit)

\* The body the three functions share; they differ in the precision of
\* the K branch only.
FormatNumber(v, s, kDecimals) ==
    LET a == Abs(v)
        p == SignPrefix(v, s)
    IN  IF a >= 1000000000 THEN Rendered(p, Digits(a, 1000000000, 1), "B")
        ELSE IF a >= 1000000 THEN Rendered(p, Digits(a, 1000000, 1), "M")
        ELSE IF a >= 1000 THEN Rendered(p, Digits(a, 1000, kDecimals), "K")
        ELSE Rendered(p, Digits(a, 1, 0), "")

\* daily_feed.format_number and format_thread.format_number: `:.1f}K`
DailyFeedFormatNumber(v, s) == FormatNumber(v, s, 1)
ThreadFormatNumber(v, s) == FormatNumber(v, s, 1)
\* generate_table_image.format_number: `:.0f}K`
ImageFormatNumber(v, s) == FormatNumber(v, s, 0)

\* The values handed to format_number: quarters of a thousand and of a
\* million up to MaxUnits and three quarters, the values next to the
\* thresholds, the billions, zero, and the negatives of all.
NumberMagnitudes ==
    {q * 250 : q \in 1..(4 * MaxUnits + 3)}
    \cup {q * 250000 : q \in 1..(4 * MaxUnits + 3)}
    \cup {1, 999, 999999}
    \cup {1000000000 + h * 250000000 : h \in 0..3}
NumberInputs == {0} \cup {sg * m : sg \in {-1, 1}, m \in NumberMagnitudes}

CallDailyFeedFormatNumber ==
    /\ out_df = None
    /\ out_df' = DailyFeedFormatNumber(num, include_sign)
    /\ UNCHANGED <<num, include_sign, out_ft, out_img>>
    /\ UNCHANGED <<fetchVars, formatVars, publishVars, runVars, uploadVars>>

CallThreadFormatNumber ==
    /\ out_ft = None
    /\ out_ft' = ThreadFormatNumber(num, include_sign)
    /\ UNCHANGED <<num, include_sign, out_df, out_img>>
    /\ UNCHANGED <<fetchVars, formatVars, publishVars, runVars, uploadVars>>

CallImageFormatNumber ==
    /\ out_img = None
    /\ out_img' = ImageFormatNumber(num, include_sign)
    /\ UNCHANGED <<num, include_sign, out_df, out_ft>>
    /\ UNCHANGED <<fetchVars, formatVars, publishVars, runVars, uploadVars>>

InitNumber ==
    /\ num \in NumberInputs
    /\ include_sign \in BOOLEAN
    /\ out_df = None /\ out_ft = None /\ out_img = None
    /\ FetchIdle /\ FormatIdle /\ PublishIdle /\ RunIdle /\ UploadIdle

NextNumber ==
    \/ CallDailyFeedFormatNumber
    \/ CallThreadFormatNumber
    \/ CallImageFormatNumber

SpecNumber == InitNumber /\ [][NextNumber]_vars

---------------------------------------------------------------------------
(* upload_media_to_typefully: request an upload target, upload the bytes,  *)
(* poll the processing status.                                             *)

\* `for _ in range(10)`: the number of rounds of the status poll.
StatusPolls == 10

\* The media ids and the upload URL the drafting API may answer with.
UploadedMediaId(n) == [type |-> "media_id", id |-> n]
MediaIdValues == {UploadedMediaId(1), UploadedMediaId(2)}
PresignedUrl == [type |-> "url"]
UploadData(url, mid) == [upload_url |-> url, media_id |-> mid]
UploadDataValues ==
    { UploadData(u, m) : u \in {None, PresignedUrl}, m \in {None} \cup MediaIdValues }

\* `if not upload_url or not media_id`
InvalidUploadData(d) == d.upload_url = None \/ d.media_id = None

\* A response of the status endpoint: its status code and the "status"
\* field of its JSON.
StatusResponse(c, st) == [status_code |-> c, status |-> st]
StatusResponses ==
    { StatusResponse(200, st) : st \in {"ready", "failed", "processing"} }
        \cup { StatusResponse(500, "none") }

\* `if status_response.status_code == 200: ... == "ready": break`
PollBreaks(r) == r.status_code = 200 /\ r.status = "ready"
\* `elif status_data.get("status") == "failed": raise RuntimeError`
PollRaises(r) == r.status_code = 200 /\ r.status = "failed"

MediaProcessingFailed == [type |-> "RuntimeError", about |-> "media processing failed"]
InvalidUploadResponse == [type |-> "RuntimeError", about |-> "invalid upload response"]

\* Where the loop goes after a round that neither broke nor raised and
\* slept: the next round, or past the loop once range(10) is exhausted.
AfterPollSleepUntilReady(n) == "poll"
AfterPollSleep(n) == IF n < StatusPolls THEN "poll" ELSE "return"

uploadState == <<upc, upload_data, polls, poll_sleeps, upload_outcome>>

\* Step 1: the upload-target request answers 2xx with a JSON object.
UploadTargetAnswered ==
    /\ upc = "request_target"
    /\ \E d \in UploadDataValues :
        /\ upload_data' = d
        /\ IF InvalidUploadData(d)
           THEN /\ upc' = "done"
                /\ upload_outcome' = Raised(InvalidUploadResponse)
           ELSE /\ upc' = "put"
                /\ UNCHANGED upload_outcome
    /\ UNCHANGED <<polls, poll_sleeps>>
    /\ UNCHANGED <<fetchVars, formatVars, publishVars, runVars, numberVars>>

\* Step 1: the request raises, or raise_for_status() does.
UploadTargetFails ==
    /\ upc = "request_target"
    /\ \E e \in {TimeoutException, RequestError, HTTPStatusError(500)} :
        upload_outcome' = Raised(e)
    /\ upc' = "done"
    /\ UNCHANGED <<upload_data, polls, poll_sleeps>>
    /\ UNCHANGED <<fetchVars, formatVars, publishVars, runVars, numberVars>>

\* Step 2: the bytes are put to the presigned URL.
PutBytes ==
    /\ upc = "put"
    /\ upc' = "poll"
    /\ UNCHANGED <<upload_data, polls, poll_sleeps, upload_outcome>>
    /\ UNCHANGED <<fetchVars, formatVars, publishVars, runVars, numberVars>>

\* Step 2: reading the file, the request or raise_for_status() raises.
PutBytesFails ==
    /\ upc = "put"
    /\ \E e \in {TimeoutException, RequestError, HTTPStatusError(403)} :
        upload_outcome' = Raised(e)
    /\ upc' = "done"
    /\ UNCHANGED <<upload_data, polls, poll_sleeps>>
    /\ UNCHANGED <<fetchVars, formatVars, publishVars, runVars, numberVars>>

\* Step 3, one round: the status request is answered.
PollStatus ==
    /\ upc = "poll"
    /\ \E r \in StatusResponses :
        /\ polls' = Append(polls, r)
        /\ IF PollBreaks(r)
           THEN /\ upc' = "return" /\ UNCHANGED upload_outcome
           ELSE IF PollRaises(r)
           THEN /\ upc' = "done" /\ upload_outcome' = Raised(MediaProcessingFailed)
           ELSE /\ upc' = "sleep" /\ UNCHANGED upload_outcome
    /\ UNCHANGED <<upload_data, poll_sleeps>>
    /\ UNCHANGED <<fetchVars, formatVars, publishVars, runVars, numberVars>>

\* Step 3, one round: the status request raises (timeout, connection).
PollStatusFails ==
    /\ upc = "poll"
    /\ \E e \in {TimeoutException, RequestError} :
        upload_outcome' = Raised(e)
    /\ upc' = "done"
    /\ UNCHANGED <<upload_data, polls, poll_sleeps>>
    /\ UNCHANGED <<fetchVars, formatVars, publishVars, runVars, numberVars>>

\* Step 3: `time.sleep(1)` at the end of a round, then the loop header.
PollSleep ==
    /\ upc = "sleep"
    /\ poll_sleeps' = poll_sleeps + 1
    /\ upc' = AfterPollSleep(Len(polls))
    /\ UNCHANGED <<upload_data, polls, upload_outcome>>
    /\ UNCHANGED <<fetchVars, formatVars, publishVars, runVars, numberVars>>

\* `return media_id`
ReturnMediaId ==
    /\ upc = "return"
    /\ upload_outcome' = Returned(upload_data.media_id)
    /\ upc' = "done"
    /\ UNCHANGED <<upload_data, polls, poll_sleeps>>
    /\ UNCHANGED <<fetchVars, formatVars, publishVars, runVars, numberVars>>

InitUpload ==
    /\ upc = "request_target" /\ upload_data = None /\ polls = <<>> /\ poll_sleeps = 0
    /\ upload_outcome = None
    /\ FetchIdle /\ FormatIdle /\ PublishIdle /\ RunIdle /\ NumberIdle

NextUpload ==
    \/ UploadTargetAnswered
    \/ UploadTargetFails
    \/ PutBytes
    \/ PutBytesFails
    \/ PollStatus
    \/ PollStatusFails
    \/ PollSleep
    \/ ReturnMediaId

SpecUpload == InitUpload /\ [][NextUpload]_vars

---------------------------------------------------------------------------
(* Properties of the fetcher and the aggregator (SpecFetch). *)

\* The distinct elements of s in the order of their first occurrence.
RECURSIVE FirstOccurrences(_)
FirstOccurrences(s) ==
    IF s = <<>> THEN <<>>
    ELSE LET front == FirstOccurrences(SubSeq(s, 1, Len(s) - 1))
             x == s[Len(s)]
         IN  IF \E i \in 1..Len(front) : front[i] = x THEN front ELSE Append(front, x)

IsDistinct(s) == \A i, j \in 1..Len(s) : i # j => s[i] # s[j]

\* Round i is the last one so far that fetched its token.
IsLastRoundOfToken(i) == \A j \in (i + 1)..Len(produced) : tokens[j] # tokens[i]

RoundOver == pc \in {"next_token", "done"} /\ produced # <<>>
LastProduced == produced[Len(produced)]
RequestsOf(log) == SelectSeq(log, LAMBDA e : e.ev = "request")
SleepsOf(log) == SelectSeq(log, LAMBDA e : e.ev = "sleep")
\* All attempts of the last round failed and it raised the RuntimeError.
Exhausted == RoundOver /\ LastProduced.raised /\ LastProduced.exc.type = "RuntimeError"
IsErrorMarker(entry) == "error" \in DOMAIN entry

\* C1: the mapping fetch_all_positions builds has one entry per token of
\* the rounds done so far and no other key, the keys in the order the
\* tokens were given (a repeated token keeps the place of its first
\* occurrence); on return every token of the input has its entry, whatever
\* each fetch did.
C1_OneEntryPerToken ==
    /\ DictKeys(results) = FirstOccurrences(SubSeq(tokens, 1, ti - 1))
    /\ IsDistinct(DictKeys(results))
    /\ pc = "done" =>
        /\ ti = Len(tokens) + 1
        /\ DictKeys(results) = FirstOccurrences(tokens)
        /\ IsDistinct(tokens) => DictKeys(results) = tokens

\* C1 witness: a returned batch of two different tokens, the first failed,
\* the second fetched.
C1_Witness ==
    /\ pc = "done" /\ Len(tokens) = 2 /\ tokens[1] # tokens[2]
    /\ produced[1].raised /\ ~produced[2].raised
    /\ DictKeys(results) = tokens

\* The entry a round owes to its own fetch alone.
OwnEntryHolds(i) ==
    LET f == produced[i]
        entry == DictGet(results, tokens[i])
    IN  /\ f.raised => entry = [kind |-> "object", data |-> <<>>, error |-> Str(f.exc)]
        /\ f.raised /\ f.exc.type = "RuntimeError" => entry.error.token = tokens[i]
        /\ ~f.raised /\ f.body.kind \in {"object", "object_nodata"} => entry = f.body
        /\ ~f.raised /\ f.body.kind \notin {"object", "object_nodata"} =>
              /\ entry.data = <<>>
              /\ entry.error \in {[text |-> "AttributeError"], [text |-> "TypeError"]}

ClaimedRetryable(o) ==
    \/ o.res \in {"timeout", "request_error"}
    \/ o.res = "status" /\ ((500 <= o.status /\ o.status < 600) \/ o.status = 429)

\* The failures after which the code goes on: a timeout, a request error,
\* and every error status that is not a 4xx other than 429.
CodeRetryable(o) ==
    \/ o.res \in {"timeout", "request_error"}
    \/ o.res = "status" /\ ~(400 <= o.status /\ o.status < 500 /\ o.status # 429)

\* C3 as stated: at most MAX_RETRIES requests per token, and a further
\* request only after a timeout, a network error, a 5xx or a 429.
C3_OnlyNamedFailuresRetried ==
    LET reqs == RequestsOf(reqlog)
    IN  /\ Len(reqs) <= MAX_RETRIES
        /\ \A k \in 2..Len(reqs) : ClaimedRetryable(reqs[k - 1].outcome)

\* C3 amended: at most MAX_RETRIES requests per token, and a further
\* request only after a timeout, a request error, or an error status that
\* is not a 4xx other than 429 (5xx, 429, and the 1xx/3xx statuses
\* raise_for_status raises for too); no 4xx other than 429 is retried.
C3_Amended ==
    LET reqs == RequestsOf(reqlog)
    IN  /\ Len(reqs) <= MAX_RETRIES
        /\ \A k \in 2..Len(reqs) : CodeRetryable(reqs[k - 1].outcome)
        /\ \A k \in 1..Len(reqs) :
              (reqs[k].outcome.res = "status" /\ reqs[k].outcome.status = 404) => k = Len(reqs)

\* C3 witness: the third request of a token goes out after a 301 and a
\* 429.
C3_Witness ==
    LET reqs == RequestsOf(reqlog)
    IN  /\ Len(reqs) = MAX_RETRIES
        /\ reqs[1].outcome = [res |-> "status", status |-> 301]
        /\ reqs[2].outcome = [res |-> "status", status |-> 429]

\* C4: with every attempt failing retryably, the events of a token are
\* request, sleep 1, request, sleep 2, request: no wait before the first
\* request, waits of 1 and 2 before the second and the third, none after
\* the third.
C4_BackoffSequence ==
    /\ Len(reqlog) <= 2 * MAX_RETRIES - 1
    /\ \A k \in 1..Len(reqlog) :
          /\ k % 2 = 1 => reqlog[k].ev = "request"
          /\ k = 2 => reqlog[k] = SleepEvent(1)
          /\ k = 4 => reqlog[k] = SleepEvent(2)
    /\ Exhausted =>
          /\ Len(reqlog) = 5
          /\ SleepsOf(reqlog) = <<SleepEvent(1), SleepEvent(2)>>
          /\ reqlog[Len(reqlog)].ev = "request"

\* C4 witness: a token whose three attempts all failed retryably.
C4_Witness ==
    /\ Exhausted
    /\ Len(RequestsOf(reqlog)) = 3
    /\ \A k \in {1, 3, 5} : CodeRetryable(reqlog[k].outcome)

IsFatalOutcome(o) ==
    o.res = "status" /\ 400 <= o.status /\ o.status < 500 /\ o.status # 429

\* C5: an attempt answered with a 4xx other than 429 is the last event of
\* its token: no request and no sleep follows it, and the fetch raised
\* that very HTTPStatusError.
C5_FatalStatusRaisesAtOnce ==
    \A k \in 1..Len(reqlog) :
        (reqlog[k].ev = "request" /\ IsFatalOutcome(reqlog[k].outcome)) =>
            /\ k = Len(reqlog)
            /\ RoundOver
            /\ LastProduced = Raised(HTTPStatusError(reqlog[k].outcome.status))
            /\ Len(SleepsOf(reqlog)) = Len(RequestsOf(reqlog)) - 1

\* C5 witness: a 404 on the second attempt ended the token's fetch.
C5_Witness ==
    /\ RoundOver
    /\ Len(reqlog) = 3
    /\ reqlog[3] = RequestEvent([res |-> "status", status |-> 404])

\* The exception an attempt's failure is.
ErrorOf(o) ==
    CASE o.res = "timeout"       -> TimeoutException
      [] o.res = "request_error" -> RequestError
      [] o.res = "status"        -> HTTPStatusError(o.status)
      [] OTHER                   -> None

\* C6: the RuntimeError raised after MAX_RETRIES failed attempts is chained
\* to the error of the last attempt.
C6_TerminalErrorCarriesLast ==
    Exhausted =>
        /\ LastProduced.exc.cause = ErrorOf(reqlog[Len(reqlog)].outcome)
        /\ LastProduced.exc.cause # None

\* C6 witness: the attempts failed with a timeout, a 500 and a 429, in
\* this order.
C6_Witness ==
    /\ Exhausted
    /\ reqlog[1].outcome = [res |-> "timeout"]
    /\ reqlog[3].outcome = [res |-> "status", status |-> 500]
    /\ reqlog[5].outcome = [res |-> "status", status |-> 429]

\* C7 as stated: the entry of a token is the error marker if and only if
\* its fetch raised; otherwise it is the response body, unchanged and
\* without an error marker.
C7_ErrorMarkerIffFetchRaised ==
    \A i \in 1..Len(produced) :
        IsLastRoundOfToken(i) =>
            LET entry == DictGet(results, tokens[i])
            IN  /\ IsErrorMarker(entry) <=> produced[i].raised
                /\ ~produced[i].raised => entry = produced[i].body

---------------------------------------------------------------------------
(* Properties of the formatters (SpecFormat). *)

NoTokenSucceeded == \A k \in 1..Len(TOKENS) : PositionsOf(data, TOKENS[k]) = <<>>

\* C8: whatever the aggregate, each of the three formatters returns a
\* non-empty post sequence whose posts all have a non-empty text and whose
\* last post is the footer.
C8_ThreadNeverEmpty ==
    fmt # "none" =>
        /\ posts # <<>>
        /\ \A i \in 1..Len(posts) : ~TextIsEmpty(posts[i].text) /\ posts[i].text # <<>>
        /\ posts[Len(posts)] = FooterPost

\* C8 witness: an aggregate of error markers only, formatted to the footer
\* alone.
C8_Witness ==
    /\ fmt # "none"
    /\ Len(data) = 2
    /\ \A i \in 1..Len(data) : IsErrorMarker(data[i].value)
    /\ NoTokenSucceeded
    /\ posts = <<FooterPost>>

---------------------------------------------------------------------------
(* Properties of the publisher (SpecPublish). *)

PublisherEnded == ppc \in {"returned", "raised", "exited"}
ReturnedDryRunId == ~outcome.raised /\ outcome.body.id = "dry_run"

\* C9 as stated: a dry run never issues the draft request and always
\* returns the synthetic result with the id "dry_run", for any posts and
\* any schedule value.
C9_DryRunAlwaysReturns ==
    dry_run =>
        /\ sent = <<>>
        /\ PublisherEnded => ReturnedDryRunId

\* C9 amended: a dry run never issues the draft request; it returns the
\* synthetic result with the id "dry_run" for any posts and any schedule
\* value whose publish time now + N minutes is an instant a datetime can
\* hold, and raises OverflowError otherwise (the timestamp is computed
\* before the dry_run test).
C9_Amended ==
    dry_run =>
        /\ sent = <<>>
        /\ PublisherEnded =>
              IF schedule = None \/ schedule.minutes = 0 \/ Representable(now + schedule.minutes)
              THEN outcome = Returned([id |-> "dry_run", status |-> "draft", posts_count |-> Len(thread)])
              ELSE outcome = Raised(OverflowError)

\* C9 witness: a scheduled dry run of a thread of three posts returned the
\* synthetic result.
C9_Witness ==
    /\ dry_run /\ ppc = "returned"
    /\ schedule # None /\ schedule.minutes > 0
    /\ Len(thread) = 3
    /\ outcome.body.id = "dry_run"
    /\ sent = <<>>

\* C10: a run that is no dry run issues at most one draft request, the
\* request carries the whole post sequence under every platform, and a
\* failed request is followed by no other: the run ends with exit code 1.
C10_OneDraftRequest ==
    ~dry_run =>
        /\ Len(sent) <= 1
        /\ \A i \in 1..Len(sent) :
              \A pl \in DOMAIN sent[i].platforms : sent[i].platforms[pl].posts = thread
        /\ (ppc \in {"returned", "raised"} /\ ~PublishAtOverflows(now, schedule)) => Len(sent) = 1
        /\ (ppc = "exited" /\ outcome.raised) => exit_code.code = 1

\* C10 witness: the draft request of a thread of three posts was rejected
\* and the run ended, one request sent.
C10_Witness ==
    /\ ~dry_run /\ ppc = "exited"
    /\ outcome = Raised(HTTPStatusError(500))
    /\ Len(thread) = 3
    /\ Len(sent) = 1
    /\ exit_code.code = 1

\* C11 as stated: whenever --schedule=N is given, for any integer N, the
\* draft request carries publish_at = now + N minutes and that instant lies
\* in the future; without the flag the request has no publish_at.
C11_ScheduledRequestHasFuturePublishAt ==
    \A i \in 1..Len(sent) :
        IF schedule = None
        THEN "publish_at" \notin DOMAIN sent[i]
        ELSE /\ "publish_at" \in DOMAIN sent[i]
             /\ sent[i].publish_at = now + schedule.minutes
             /\ sent[i].publish_at > now

---------------------------------------------------------------------------
(* Properties of the entry points (SpecRun). *)

\* The network requests a run has made so far.
NetworkRequests == SelectSeq(events, LAMBDA e : e.ev = "request")
RunExited == mpc = "exited"

\* C12: a daily_feed run without the data-API key, or without the
\* publishing key when it is no dry run, makes no network request at any
\* point, never gets past the validation of the environment, and ends with
\* exit code 1.
C12_MissingKeyAbortsBeforeNetwork ==
    (script = "daily_feed"
     /\ (~env.nansen_api_key \/ (~dry_run /\ ~env.typefully_api_key))) =>
        /\ NetworkRequests = <<>>
        /\ mpc \in {"validate", "exited"}
        /\ RunExited => exit_code = Exit(1)

\* C12 witness: a run that is no dry run, with the data-API key and
\* without the publishing key, ended with exit code 1 and no request.
C12_Witness ==
    /\ script = "daily_feed" /\ ~dry_run /\ ~health_check_only
    /\ env.nansen_api_key /\ ~env.typefully_api_key
    /\ RunExited /\ exit_code = Exit(1)
    /\ events = <<>>

\* The tokens whose summary header appears in a post sequence, in order.
RECURSIVE HeaderTokensFrom(_, _)
HeaderTokensFrom(ps, k) ==
    IF k > Len(ps) THEN <<>>
    ELSE (IF ps[k].text[1].kind = "header" THEN <<ps[k].text[1].token>> ELSE <<>>)
         \o HeaderTokensFrom(ps, k + 1)
HeaderTokens(ps) == HeaderTokensFrom(ps, 1)

\* A daily_feed run that is no dry run got through its setup (environment,
\* social set), ran the fetch loop, and has ended.
NonDryRunEnded ==
    /\ script = "daily_feed" /\ ~dry_run /\ RunExited
    /\ Len(produced) = Len(TOKENS)
FailedTokens == {i \in 1..Len(produced) : produced[i].raised}

\* C13 as stated: a non-dry run whose setup succeeded sends the draft built
\* from the tokens that succeeded however many fetches failed, and exits
\* with 1 if and only if the draft request failed.
C13_ExitOneIffPublishFails ==
    NonDryRunEnded =>
        /\ Len(sent) = 1
        /\ HeaderTokens(thread) = ImageTokens(data)
        /\ exit_code.code = 1 <=> outcome.raised
        /\ exit_code.code \in {0, 1}

\* C13 amended: in a non-dry run whose setup succeeded, fetch failures never
\* change the exit code.  When the social set id is an integer and the
\* publish time now + N minutes is an instant a datetime can hold, the run
\* sends one draft request with the thread built from the tokens that
\* succeeded and exits with 1 if and only if that request failed, else 0.
\* Otherwise (int() rejects the configured id, or the timestamp overflows)
\* no draft request is sent and the exit code is 1.
C13_Amended ==
    NonDryRunEnded =>
        IF social_set_id.numeric /\ ~PublishAtOverflows(now, schedule)
        THEN /\ Len(sent) = 1
             /\ \A pl \in DOMAIN sent[1].platforms : sent[1].platforms[pl].posts = thread
             /\ HeaderTokens(thread) = ImageTokens(data)
             /\ exit_code.code = 1 <=> outcome.raised
             /\ exit_code.code \in {0, 1}
        ELSE /\ sent = <<>>
             /\ exit_code = Exit(1)

\* C13 witness: two of the four fetches failed, the draft with the other
\* two tokens was created, and the run ended with exit code 0.
C13_Witness ==
    /\ NonDryRunEnded
    /\ Cardinality(FailedTokens) = 2
    /\ Len(sent) = 1 /\ Len(thread) = 3
    /\ ~outcome.raised
    /\ exit_code = Exit(0)

\* The probes health_check has sent, and the health-check runs that ended
\* with the exit code of the health check.
HealthProbes == SelectSeq(events, LAMBDA e : e.ev = "request" /\ e.op = "probe")
HealthRunEnded ==
    /\ script = "daily_feed" /\ health_check_only /\ RunExited
    /\ health # None
AnsweredOk(p) == p.answer.reached /\ p.answer.status = 200

\* C14: a --health-check run exits with 0 only if every service it probed
\* answered with status 200; if a probed service was unreachable or
\* answered with another status, it exits with 1.
C14_HealthExitCode ==
    HealthRunEnded =>
        /\ exit_code.code \in {0, 1}
        /\ exit_code.code = 0 => \A i \in 1..Len(HealthProbes) : AnsweredOk(HealthProbes[i])
        /\ (\E i \in 1..Len(HealthProbes) : ~AnsweredOk(HealthProbes[i])) => exit_code.code = 1

\* C14 witness: both services were probed, both answered 200, and the run
\* ended with exit code 0.
C14_Witness ==
    /\ HealthRunEnded
    /\ Len(HealthProbes) = 2
    /\ \A i \in 1..2 : HealthProbes[i].answer = Answer(200)
    /\ exit_code = Exit(0)

\* The run ended where the environment is validated: before the health
\* check, the social set, the input and the fetch.
ExitedAtValidation ==
    /\ RunExited /\ events = <<>> /\ outcome = None
    /\ IF script = "daily_feed" THEN produced = <<>> /\ health = None
       ELSE social_set_id = None

\* C15 as stated: with --dry-run no run ends at the validation of the
\* environment for lack of the publishing key, be it a run of daily_feed
\* or of the standalone publisher script.
C15_DryRunNeedsNoPublishingKey ==
    (dry_run /\ ~env.typefully_api_key /\ (script = "daily_feed" => env.nansen_api_key)) =>
        ~ExitedAtValidation

\* C15 amended: daily_feed requires the publishing key only when --dry-run
\* is absent: a dry run without it passes the validation and ends with exit
\* code 0 (with 1 in --health-check mode, where the service that was not
\* probed counts as not reachable).  The standalone publisher script
\* requires the key with or without --dry-run: without it the run ends
\* with exit code 1 before it reads its input or makes a request.
C15_Amended ==
    /\ (script = "daily_feed" /\ dry_run /\ env.nansen_api_key /\ ~env.typefully_api_key) =>
          /\ ~ExitedAtValidation
          /\ RunExited => exit_code = Exit(IF health_check_only THEN 1 ELSE 0)
    /\ (script = "post_typefully" /\ ~env.typefully_api_key) =>
          /\ mpc \in {"validate", "exited"}
          /\ events = <<>> /\ thread = <<>>
          /\ RunExited => exit_code = Exit(1)

\* C15 witness: a dry run of daily_feed without the publishing key
\* formatted its thread and ended with exit code 0.
C15_Witness ==
    /\ script = "daily_feed" /\ dry_run /\ ~env.typefully_api_key
    /\ RunExited /\ exit_code = Exit(0)
    /\ Len(posts) = 5

\* The phase of daily_feed.main an observed event belongs to.
PhaseOf(e) ==
    CASE e.ev = "format"                          -> "format"
      [] e.ev = "generate_images"                 -> "images"
      [] e.ev = "request" /\ e.op = "positions"   -> "fetch"
      [] e.ev = "request" /\ e.op = "upload"      -> "images"
      [] e.ev = "request" /\ e.op = "draft"       -> "publish"
      [] OTHER                                    -> "setup"
EventsOfPhase(ph) == SelectSeq(events, LAMBDA e : PhaseOf(e) = ph)

\* The place of each phase in the order the claim gives, and in the order
\* of the statements of main.
ClaimedRank(ph) ==
    CASE ph = "setup" -> 0 [] ph = "fetch" -> 1 [] ph = "format" -> 2
      [] ph = "images" -> 3 [] ph = "publish" -> 4
MainRank(ph) ==
    CASE ph = "setup" -> 0 [] ph = "fetch" -> 1 [] ph = "images" -> 2
      [] ph = "format" -> 3 [] ph = "publish" -> 4

\* C20 as stated: in every daily_feed run the events come in the order
\* fetch loop, formatting, image generation and uploads, publish call.
C20_FetchFormatImagesPublish ==
    script = "daily_feed" =>
        \A i, j \in 1..Len(events) :
            i < j => ClaimedRank(PhaseOf(events[i])) <= ClaimedRank(PhaseOf(events[j]))

\* C20 amended: in every daily_feed run the events come in the order fetch
\* loop over all tokens, then the optional image generation and upload
\* loop, then formatting, then at most one publish call: nothing follows
\* the fetch loop before it has fetched every token, the image formatter
\* runs only after the images were generated, and the draft request is
\* sent only after the one formatting.
C20_Amended ==
    script = "daily_feed" =>
        /\ \A i, j \in 1..Len(events) :
              i < j => MainRank(PhaseOf(events[i])) <= MainRank(PhaseOf(events[j]))
        /\ (\E i \in 1..Len(events) : MainRank(PhaseOf(events[i])) > 1) =>
              [k \in 1..Len(TOKENS) |-> EventsOfPhase("fetch")[k].arg] = TOKENS
        /\ Len(EventsOfPhase("fetch")) <= Len(TOKENS)
        /\ Len(EventsOfPhase("format")) <= 1
        /\ Len(EventsOfPhase("publish")) <= 1
        /\ fmt = "daily_feed.format_thread_with_images" => GenerateEvent \in {events[i] : i \in 1..Len(events)}
        /\ EventsOfPhase("publish") # <<>> => EventsOfPhase("format") # <<>>

\* C20 witness: a run with --use-images fetched the four tokens, generated
\* and uploaded two images, formatted the thread and sent the draft.
C20_Witness ==
    /\ script = "daily_feed" /\ RunExited /\ exit_code = Exit(0)
    /\ Len(EventsOfPhase("fetch")) = 4
    /\ Len(EventsOfPhase("images")) = 3
    /\ Len(media_ids) = 2
    /\ Len(EventsOfPhase("format")) = 1
    /\ Len(EventsOfPhase("publish")) = 1

---------------------------------------------------------------------------
(* Further properties of the formatters (SpecFormat). *)

HasPositions(t) == PositionsOf(data, t) # <<>>
IsTokenPost(p) == p.text[1].kind \in {"header", "continuation", "no_positions"}

\* C16 as stated: the token posts follow the insertion order of the
\* aggregate, every token of the aggregate that has positions gets its
\* posts, and the first token of that order gets the dated header.
C16_PostsInInsertionOrder ==
    fmt # "none" =>
        LET expected == SelectSeq(DictKeys(data), HasPositions)
        IN  /\ HeaderTokens(posts) = expected
            /\ expected # <<>> =>
                  /\ posts[1].text[1].token = expected[1]
                  /\ posts[1].text[1].dated

\* C16 amended: the token posts follow the order of the fixed list TOKENS
\* (BTC, ETH, SOL, HYPE), whatever the insertion order of the aggregate;
\* the tokens that get posts are those of TOKENS that have positions in the
\* aggregate (a key outside TOKENS gets none); every continuation post
\* follows a post of its own token; and the header is dated exactly when
\* its token is the first of TOKENS.
C16_Amended ==
    fmt # "none" =>
        /\ HeaderTokens(posts) = SelectSeq(TOKENS, HasPositions)
        /\ \A k \in 1..Len(posts) :
              /\ IsTokenPost(posts[k]) => posts[k].text[1].token \in TokenSet
              /\ posts[k].text[1].kind = "header" =>
                    (posts[k].text[1].dated <=> posts[k].text[1].token = TOKENS[1])
              /\ posts[k].text[1].kind = "continuation" =>
                    /\ k > 1
                    /\ posts[k - 1].text[1].kind \in {"header", "continuation"}
                    /\ posts[k - 1].text[1].token = posts[k].text[1].token

\* C16 witness: the aggregate holds ETH before BTC, both with positions;
\* format_thread put the posts of BTC first, then those of ETH.
C16_Witness ==
    /\ fmt = "format_thread.format_thread"
    /\ DictKeys(data) = <<"ETH", "BTC">>
    /\ Len(PositionsOf(data, "BTC")) = 6
    /\ HeaderTokens(posts) = <<"BTC", "ETH">>
    /\ Len(posts) = 4

---------------------------------------------------------------------------
(* Properties of format_number (SpecNumber). *)

NumberResults == {out \in {out_df, out_ft, out_img} : out # None}

\* C17: the prefix format_number prints is "+" exactly when the value is
\* positive and include_sign is set, "-" exactly when the value is
\* negative, and empty otherwise.
C17_SignPrefix ==
    \A out \in NumberResults :
        /\ out.prefix = "+" <=> (num > 0 /\ include_sign)
        /\ out.prefix = "-" <=> num < 0
        /\ out.prefix = "" <=> (num = 0 \/ (num > 0 /\ ~include_sign))

\* C17 witness: format_number(250000, include_sign=True) of daily_feed.py
\* and of format_thread.py returned "+$250.0K".
C17_Witness ==
    /\ num = 250000 /\ include_sign
    /\ out_df = [prefix |-> "+", whole |-> 250, frac |-> <<0>>, suffix |-> "K"]
    /\ out_ft = out_df

\* C18 as stated: the three format_number functions return the same string
\* for every value and flag: one decimal with B, M or K from 1e9, 1e6 and
\* 1e3 on, whole dollars below.
C18_SameRendering ==
    (out_df # None /\ out_ft # None /\ out_img # None) =>
        /\ out_df = out_ft
        /\ out_ft = out_img
        /\ Abs(num) >= 1000 => Len(out_img.frac) = 1
        /\ Abs(num) < 1000 => out_img.frac = <<>>

---------------------------------------------------------------------------
(* Further properties of the fetcher (SpecFetch). *)

\* C19: the fetch of every token of a batch starts with the attempt counter
\* at zero, no last error and the initial backoff, whatever the fetches of
\* the tokens before it did: the counter equals the number of waits of the
\* token's own fetch, and the wait before its first retry is the initial
\* backoff.
C19_NoRetryStateAcrossTokens ==
    /\ (pc = "request" /\ reqlog = <<>>) =>
          /\ attempt = 0
          /\ backoff = INITIAL_BACKOFF
          /\ last_error = None
    /\ pc \in {"request", "sleep"} => attempt = Len(SleepsOf(reqlog))
    /\ SleepsOf(reqlog) # <<>> => SleepsOf(reqlog)[1] = SleepEvent(INITIAL_BACKOFF)

\* C19 witness: the first token used up its three attempts (waits of 1 and
\* 2), and the second token waited 1 before its first retry.
C19_Witness ==
    /\ Len(tokens) = 2 /\ ti = 2 /\ pc = "request"
    /\ Len(produced) = 1
    /\ produced[1].raised /\ produced[1].exc.type = "RuntimeError"
    /\ attempt = 1
    /\ reqlog[2] = SleepEvent(1)

---------------------------------------------------------------------------
(* Properties of format_token_tweets (SpecFormat). *)

\* The posts of a token in a post sequence, in order, and the position
\* lines of a post.
PostsOfToken(ps, t) == SelectSeq(ps, LAMBDA p : IsTokenPost(p) /\ p.text[1].token = t)
PositionLinesOf(p) == SelectSeq(p.text, LAMBDA l : l.kind = "position")
RECURSIVE PositionLinesFrom(_, _)
PositionLinesFrom(tw, k) ==
    IF k > Len(tw) THEN <<>> ELSE PositionLinesOf(tw[k]) \o PositionLinesFrom(tw, k + 1)
\* ceil(n / 5)
CeilFifth(n) == CHOOSE c \in 0..n : 5 * (c - 1) < n /\ n <= 5 * c

\* C21: format_thread.py renders the n >= 1 positions of a token as exactly
\* ceil(n/5) tweets of at most 5 positions each; read over all tweets the
\* position lines are the positions in input order under the ranks 1..n,
\* each once; the first tweet carries the summary header and the k-th, for
\* k >= 2, the label (k/ceil(n/5)).
C21_ChunksOfFive ==
    fmt = "format_thread.format_thread" =>
        \A t \in TokenSet :
            LET ps == PositionsOf(data, t)
                n  == Len(ps)
                tw == PostsOfToken(posts, t)
            IN  n >= 1 =>
                  /\ Len(tw) = CeilFifth(n)
                  /\ \A k \in 1..Len(tw) :
                        /\ Len(PositionLinesOf(tw[k])) \in 1..5
                        /\ Len(tw[k].text) = 2 + Len(PositionLinesOf(tw[k]))
                        /\ k = 1 => tw[k].text[1].kind = "header"
                        /\ k >= 2 =>
                              /\ tw[k].text[1].kind = "continuation"
                              /\ tw[k].text[1].chunk_num = k
                              /\ tw[k].text[1].total_chunks = CeilFifth(n)
                  /\ PositionLinesFrom(tw, 1) =
                        [k \in 1..n |-> [kind |-> "position", rank |-> k, position |-> ps[k]]]

\* C21 witness: six positions of BTC were rendered as two tweets, five
\* positions in the first, the sixth in the second, labelled (2/2).
C21_Witness ==
    /\ fmt = "format_thread.format_thread"
    /\ Len(PositionsOf(data, "BTC")) = 6
    /\ Len(PostsOfToken(posts, "BTC")) = 2
    /\ PostsOfToken(posts, "BTC")[2].text[1] =
          [kind |-> "continuation", token |-> "BTC", chunk_num |-> 2, total_chunks |-> 2]
    /\ PositionLinesOf(PostsOfToken(posts, "BTC")[2])[1].rank = 6

---------------------------------------------------------------------------
(* Properties of the image mode of daily_feed.main (SpecRun). *)

EventSet == {events[i] : i \in 1..Len(events)}
GenerationFailed == script = "daily_feed" /\ GenerateFailedEvent \in EventSet
CarriesMedia(p) == "media_ids" \in DOMAIN p

\* C22: when --use-images is set and generate_all_images raises, the run
\* goes on in text mode: nothing is uploaded, the thread is the one the
\* text formatter builds, no post of it (and none of the draft request)
\* carries media_ids, and the run ends with a non-zero exit code only if
\* the publish call raised (never in a dry run).
C22_FallbackToText ==
    GenerationFailed =>
        /\ mpc \in {"format", "preview", "publish", "exited"}
        /\ image_paths = <<>> /\ media_ids = <<>>
        /\ \A i \in 1..Len(events) : ~(events[i].ev = "request" /\ events[i].op = "upload")
        /\ mpc # "format" =>
              /\ fmt = "daily_feed.format_thread"
              /\ posts = DailyFeedFormatThread(data)
              /\ \A k \in 1..Len(posts) : ~CarriesMedia(posts[k])
        /\ \A i \in 1..Len(sent) : \A pl \in DOMAIN sent[i].platforms :
              \A k \in 1..Len(sent[i].platforms[pl].posts) :
                  ~CarriesMedia(sent[i].platforms[pl].posts[k])
        /\ RunExited =>
              /\ fmt # "none"
              /\ dry_run => exit_code = Exit(0)
              /\ exit_code.code # 0 => outcome.raised

\* C22 witness: the image generation failed, two tokens had positions, the
\* text thread was published and the run ended with exit code 0.
C22_Witness ==
    /\ GenerationFailed /\ ~dry_run /\ RunExited
    /\ Len(ImageTokens(data)) = 2
    /\ Len(sent) = 1 /\ Len(thread) = 3
    /\ exit_code = Exit(0)

\* C23 as stated: in image mode every post that carries a media id carries
\* the id of the image generated from the positions of its own token,
\* whichever tokens have positions and whichever uploads failed (the runs
\* that upload: in a dry run the ids are placeholders).
C23_MediaIdOfOwnToken ==
    (script = "daily_feed" /\ ~dry_run /\ fmt = "daily_feed.format_thread_with_images") =>
        \A k \in 1..Len(posts) :
            CarriesMedia(posts[k]) =>
                /\ Len(posts[k].media_ids) = 1
                /\ posts[k].media_ids[1] = MediaId(posts[k].text[1].token)

---------------------------------------------------------------------------
(* Properties of upload_media_to_typefully (SpecUpload). *)

UploadReturned == upload_outcome # None /\ ~upload_outcome.raised
ObservedReady == \E k \in 1..Len(polls) : PollBreaks(polls[k])

\* C24 as stated: upload_media_to_typefully returns a media id only after
\* the status poll has reported that media as ready, so an id whose status
\* was never observed as 'ready' is never returned; and the poll ends after
\* at most 10 status requests.
C24_ReturnedOnlyWhenReady ==
    /\ UploadReturned => ObservedReady
    /\ Len(polls) <= StatusPolls

---------------------------------------------------------------------------
(* Properties of a successful fetch (SpecFetch). *)

IsOkRequest(e) == e.ev = "request" /\ e.outcome.res = "ok"
RequestsUpTo(k) == Cardinality({j \in 1..k : reqlog[j].ev = "request"})
SleepsUpTo(k) == Cardinality({j \in 1..k : reqlog[j].ev = "sleep"})

\* C25: fetch_positions_with_retry stops at the first successful attempt:
\* a successful response is the last event of the token's fetch (no request
\* and no sleep follows it), the fetch returned that response's body
\* unchanged, and a success on attempt k cost exactly k requests and k-1
\* sleeps.
C25_StopsAtFirstSuccess ==
    \A k \in 1..Len(reqlog) :
        IsOkRequest(reqlog[k]) =>
            /\ k = Len(reqlog)
            /\ pc \in {"next_token", "done"}
            /\ ~LastProduced.raised
            /\ LastProduced.body = reqlog[k].outcome.body
            /\ k = 2 * RequestsUpTo(k) - 1
            /\ SleepsUpTo(k) = RequestsUpTo(k) - 1
            /\ RequestsUpTo(k) = attempt + 1

\* A success on the third attempt, after two failures and two sleeps, with
\* a body that has positions.
C25_Witness ==
    /\ Len(reqlog) = 5
    /\ IsOkRequest(reqlog[5])
    /\ Len(reqlog[5].outcome.body.data) = 2
    /\ pc = "next_token"

---------------------------------------------------------------------------
(* Termination and cost of fetch_all_positions (SpecFetch). *)

WithinBudget ==
    /\ spent.requests <= Len(tokens) * MAX_RETRIES
    /\ spent.sleeps <= Len(tokens) * (MAX_RETRIES - 1)

\* The number of steps a round may still take: from the request of
\* attempt a, the requests and sleeps left; from a sleep, one less.
RoundSteps == 2 * MAX_RETRIES
StepsLeft ==
    LET later == (Len(tokens) - ti) * RoundSteps + 1
    IN  CASE pc = "done"       -> 0
          [] pc = "next_token" -> IF ti > Len(tokens) THEN 1 ELSE later + RoundSteps
          [] pc = "request"    -> later + (RoundSteps - 1) - 2 * attempt
          [] pc = "sleep"      -> later + (RoundSteps - 2) - 2 * attempt

\* C26: for any token list, when every request returns or times out,
\* fetch_all_positions terminates, and it never issues more than
\* len(tokens) x max_retries requests nor more than
\* len(tokens) x (max_retries - 1) backoff sleeps.  Termination: until the
\* call has returned a step is always possible (no request or sleep is
\* waited for forever), and every step lowers a count that cannot go
\* below zero.
C26_TerminatesWithinBudget ==
    /\ [](WithinBudget /\ StepsLeft >= 0 /\ (pc # "done" => ENABLED NextFetch))
    /\ [][StepsLeft' < StepsLeft]_vars

\* The call returned after every attempt of every token failed: the whole
\* budget was spent.
C26_Witness ==
    /\ pc = "done"
    /\ Len(tokens) = 2
    /\ spent.requests = Len(tokens) * MAX_RETRIES
    /\ spent.sleeps = Len(tokens) * (MAX_RETRIES - 1)

---------------------------------------------------------------------------
(* Properties of a token that failed (SpecFormat). *)

HasErrorMarker(v) == "error" \in DOMAIN v
ErrorTokens(d) == {d[i].key : i \in {j \in 1..Len(d) : HasErrorMarker(d[j].value)}}
\* The same aggregate, each token with an error marker having an object
\* with zero positions instead.
WithoutErrors(d) ==
    [i \in 1..Len(d) |->
        IF HasErrorMarker(d[i].value)
        THEN [key |-> d[i].key, value |-> [kind |-> "object", data |-> <<>>]]
        ELSE d[i]]
Formatted(f, d, mids) ==
    CASE f = "daily_feed.format_thread"             -> DailyFeedFormatThread(d)
      [] f = "format_thread.format_thread"          -> ScriptFormatThread(d)
      [] f = "daily_feed.format_thread_with_images" -> format_thread_with_images(d, mids)

\* C27: a token whose aggregate entry carries an error marker contributes
\* no post: what each of the three formatters returns is what it returns
\* for the same aggregate with that token having zero positions, and no
\* post of it names the token.
C27_FailedTokenHasNoPost ==
    fmt # "none" =>
        /\ posts = Formatted(fmt, WithoutErrors(data), media_ids)
        /\ \A t \in ErrorTokens(data) : PostsOfToken(posts, t) = <<>>

\* A thread formatted from an aggregate where BTC failed and ETH has
\* positions.
C27_Witness ==
    /\ fmt # "none"
    /\ "BTC" \in ErrorTokens(data)
    /\ PostsOfToken(posts, "ETH") # <<>>

---------------------------------------------------------------------------
(* Properties of the first post of a thread (SpecFormat). *)

\* C28 as stated: whenever the thread contains at least one token post, its
\* first post carries the dated header, whichever token that post belongs
\* to (also when the first configured token failed or has no positions).
C28_FirstPostIsDated ==
    (fmt # "none" /\ \E k \in 1..Len(posts) : IsTokenPost(posts[k])) =>
        /\ posts[1].text[1].kind = "header"
        /\ posts[1].text[1].dated

---------------------------------------------------------------------------
(* Properties of the health check without the publishing key (SpecRun). *)

\* C29 as stated: a --health-check run whose publishing key is absent (the
\* validation lets it through with --dry-run) ends with exit code 0
\* whenever the probe of the data API succeeded.
C29_HealthCheckWithoutPublishingKey ==
    (HealthRunEnded /\ ~env.typefully_api_key
        /\ Len(HealthProbes) >= 1 /\ HealthProbes[1].api = "nansen"
        /\ AnsweredOk(HealthProbes[1])) =>
            exit_code = Exit(0)

---------------------------------------------------------------------------
(* Properties of a dry run of the pipeline (SpecRun). *)

DraftingApiRequests == SelectSeq(events, LAMBDA e : e.ev = "request" /\ e.api = "typefully")
DryRunPipeline ==
    /\ script = "daily_feed" /\ dry_run /\ ~health_check_only
    /\ env.nansen_api_key

\* C30: a --dry-run pipeline run of daily_feed (without --health-check)
\* sends no request of any kind to the drafting API, with or without
\* --use-images and with or without a configured social set id: no
\* social-set discovery, no media upload, no draft creation; and it ends
\* with exit code 0, after the fetch of every token and the preview of the
\* formatted thread.
C30_DryRunNeverCallsDraftingApi ==
    DryRunPipeline =>
        /\ DraftingApiRequests = <<>>
        /\ sent = <<>> /\ media_ids = <<>>
        /\ RunExited =>
              /\ exit_code = Exit(0)
              /\ Len(produced) = Len(tokens)
              /\ fmt # "none"
              /\ FormatEvent = events[Len(events)]

\* A dry run with --use-images and no configured social set id generated
\* its images, previewed a thread with an image placeholder and ended.
C30_Witness ==
    /\ DryRunPipeline /\ RunExited
    /\ use_images /\ env.typefully_social_set_id = None
    /\ image_paths # <<>>
    /\ \E k \in 1..Len(posts) : CarriesMedia(posts[k])
    /\ NetworkRequests # <<>>

====
